---------------------------- MODULE Spec2Model ----------------------------
(***************************************************************************)
(* A model of gmail-ai-processor: the AI model fallback chain and response *)
(* parsing (services/ai_service.py, agents/analysis_agent.py), the         *)
(* notification cascade (services/whatsapp_service.py) and the             *)
(* coordinator's per-item pipeline (agents/coordinator_agent.py).          *)
(*                                                                         *)
(* Python values are modelled as follows.  A str is a TLA+ string.  None   *)
(* and the unset configuration entries are "" where only truthiness is     *)
(* read, and a tagged record where None and "" must be told apart.  A      *)
(* JSON value is a tagged record [t |-> "str"|"bool"|"null"|"obj"|"list",  *)
(* v |-> ...]; a dict is a function from keys to such values.              *)
(***************************************************************************)
EXTENDS Integers, Sequences, FiniteSets, TLC

(***************************************************************************)
(* str operations of Python, computed character by character.              *)
(***************************************************************************)

\* s[i] for the 1-based position i, "" outside the string.
Ch(s, i) == IF i >= 1 /\ i <= Len(s) THEN SubSeq(s, i, i) ELSE ""

WsChars == {" ", "\n", "\t"}

\* s.strip() == "" : every character is whitespace.
IsBlank(s) == \A i \in 1..Len(s) : Ch(s, i) \in WsChars

\* The first position from i on that holds no whitespace (Len(s) + 1 if none).
RECURSIVE LStripIdx(_, _)
LStripIdx(s, i) ==
    IF i <= Len(s) /\ SubSeq(s, i, i) \in WsChars THEN LStripIdx(s, i + 1) ELSE i

\* The last position up to i that holds no whitespace (0 if none).
RECURSIVE RStripIdx(_, _)
RStripIdx(s, i) ==
    IF i >= 1 /\ SubSeq(s, i, i) \in WsChars THEN RStripIdx(s, i - 1) ELSE i

\* s.strip()
Strip(s) ==
    IF LStripIdx(s, 1) > RStripIdx(s, Len(s)) THEN ""
    ELSE SubSeq(s, LStripIdx(s, 1), RStripIdx(s, Len(s)))

\* The text p stands in s at the 1-based position i.
HasAt(s, i, p) ==
    i >= 1 /\ i + Len(p) - 1 <= Len(s) /\ SubSeq(s, i, i + Len(p) - 1) = p

\* sub in s
Contains(s, sub) == \E i \in 1..(Len(s) - Len(sub) + 1) : HasAt(s, i, sub)

\* s.startswith(p)
StartsWith(s, p) == HasAt(s, 1, p)

\* s.find(c): the 0-based index of the first occurrence, -1 when there is none.
Find(s, c) ==
    IF \E i \in 1..Len(s) : SubSeq(s, i, i) = c
    THEN (CHOOSE i \in 1..Len(s) :
            SubSeq(s, i, i) = c /\ \A j \in 1..(i - 1) : SubSeq(s, j, j) # c) - 1
    ELSE -1

\* s.rfind(c): the 0-based index of the last occurrence, -1 when there is none.
RFind(s, c) ==
    IF \E i \in 1..Len(s) : SubSeq(s, i, i) = c
    THEN (CHOOSE i \in 1..Len(s) :
            SubSeq(s, i, i) = c /\ \A j \in (i + 1)..Len(s) : SubSeq(s, j, j) # c) - 1
    ELSE -1

\* s[a:b] with 0-based bounds; a negative bound counts from the end.
PySlice(s, a, b) ==
    LET n  == Len(s)
        a1 == IF a < 0 THEN (IF a + n < 0 THEN 0 ELSE a + n)
                       ELSE (IF a > n THEN n ELSE a)
        b1 == IF b < 0 THEN (IF b + n < 0 THEN 0 ELSE b + n)
                       ELSE (IF b > n THEN n ELSE b)
    IN  IF a1 >= b1 THEN "" ELSE SubSeq(s, a1 + 1, b1)

UpperAlpha == "ABCDEFGHIJKLMNOPQRSTUVWXYZ"
LowerAlpha == "abcdefghijklmnopqrstuvwxyz"

UpperChars == {SubSeq(UpperAlpha, i, i) : i \in 1..Len(UpperAlpha)}

LowerMap == [c \in UpperChars |-> Ch(LowerAlpha, Find(UpperAlpha, c) + 1)]

RECURSIVE LowerFrom(_, _)
LowerFrom(s, i) ==
    IF i > Len(s) THEN ""
    ELSE LET c == SubSeq(s, i, i) IN
         (IF c \in UpperChars THEN LowerMap[c] ELSE c) \o LowerFrom(s, i + 1)

\* s.lower()
Lower(s) == LowerFrom(s, 1)

(***************************************************************************)
(* JSON values and json.loads, for the subset of JSON the responses use:   *)
(* objects, arrays, strings without escapes, true, false, null.  Any other *)
(* text makes the parse fail, as a JSONDecodeError.                        *)
(***************************************************************************)

JStr(s)  == [t |-> "str", v |-> s]
JBool(b) == [t |-> "bool", v |-> b]
JNull    == [t |-> "null"]
JObj(d)  == [t |-> "obj", v |-> d]
JList(l) == [t |-> "list", v |-> l]

\* The empty dict {}.
EmptyDict == <<>>

\* bool(x) of Python for a JSON value.
Truthy(x) ==
    CASE x.t = "str"  -> x.v # ""
      [] x.t = "bool" -> x.v
      [] x.t = "null" -> FALSE
      [] x.t = "obj"  -> DOMAIN x.v # {}
      [] x.t = "list" -> Len(x.v) > 0

\* d.get(k): the value, None (null) when the key is missing.
Get(d, k) == IF k \in DOMAIN d THEN d[k] ELSE JNull

\* d[k] = x on a dict.
Put(d, k, x) == [j \in DOMAIN d \cup {k} |-> IF j = k THEN x ELSE d[j]]

ParseFail == [ok |-> FALSE, pos |-> 0, val |-> JNull]

RECURSIVE SkipWs(_, _)
SkipWs(s, i) == IF Ch(s, i) \in WsChars THEN SkipWs(s, i + 1) ELSE i

\* The position of the quote closing a string whose text starts at i; 0 if none.
RECURSIVE ScanString(_, _)
ScanString(s, i) ==
    IF i > Len(s) THEN 0
    ELSE IF Ch(s, i) = "\"" THEN i
    ELSE ScanString(s, i + 1)

RECURSIVE ParseValue(_, _)
RECURSIVE ParseMembers(_, _, _)
RECURSIVE ParseElems(_, _, _)

\* The members of an object from position i (after "{" or ","), added to d.
ParseMembers(s, i0, d) ==
    LET i == SkipWs(s, i0) IN
    IF Ch(s, i) # "\"" THEN ParseFail
    ELSE LET q == ScanString(s, i + 1) IN
         IF q = 0 THEN ParseFail
         ELSE LET key == SubSeq(s, i + 1, q - 1)
                  c   == SkipWs(s, q + 1)
              IN  IF Ch(s, c) # ":" THEN ParseFail
                  ELSE LET r == ParseValue(s, c + 1) IN
                       IF ~r.ok THEN ParseFail
                       ELSE LET n  == SkipWs(s, r.pos)
                                d1 == Put(d, key, r.val)
                            IN  CASE Ch(s, n) = "," -> ParseMembers(s, n + 1, d1)
                                  [] Ch(s, n) = "}" ->
                                       [ok |-> TRUE, pos |-> n + 1, val |-> JObj(d1)]
                                  [] OTHER -> ParseFail

\* The elements of an array from position i (after "[" or ","), appended to l.
ParseElems(s, i0, l) ==
    LET r == ParseValue(s, i0) IN
    IF ~r.ok THEN ParseFail
    ELSE LET n  == SkipWs(s, r.pos)
             l1 == Append(l, r.val)
         IN  CASE Ch(s, n) = "," -> ParseElems(s, n + 1, l1)
               [] Ch(s, n) = "]" ->
                    [ok |-> TRUE, pos |-> n + 1, val |-> JList(l1)]
               [] OTHER -> ParseFail

\* One JSON value from position i0; pos is the position after it.
ParseValue(s, i0) ==
    LET i == SkipWs(s, i0) IN
    CASE Ch(s, i) = "{" ->
           LET j == SkipWs(s, i + 1) IN
           IF Ch(s, j) = "}"
           THEN [ok |-> TRUE, pos |-> j + 1, val |-> JObj(EmptyDict)]
           ELSE ParseMembers(s, i + 1, EmptyDict)
      [] Ch(s, i) = "[" ->
           LET j == SkipWs(s, i + 1) IN
           IF Ch(s, j) = "]"
           THEN [ok |-> TRUE, pos |-> j + 1, val |-> JList(<<>>)]
           ELSE ParseElems(s, i + 1, <<>>)
      [] Ch(s, i) = "\"" ->
           LET q == ScanString(s, i + 1) IN
           IF q = 0 THEN ParseFail
           ELSE [ok |-> TRUE, pos |-> q + 1, val |-> JStr(SubSeq(s, i + 1, q - 1))]
      [] HasAt(s, i, "true") ->
           [ok |-> TRUE, pos |-> i + 4, val |-> JBool(TRUE)]
      [] HasAt(s, i, "false") ->
           [ok |-> TRUE, pos |-> i + 5, val |-> JBool(FALSE)]
      [] HasAt(s, i, "null") ->
           [ok |-> TRUE, pos |-> i + 4, val |-> JNull]
      [] OTHER -> ParseFail

\* json.loads(s): [ok |-> TRUE, val |-> the value], or ok = FALSE for a
\* JSONDecodeError (also when text follows the value).
JsonLoads(s) ==
    LET r == ParseValue(s, 1) IN
    IF r.ok /\ SkipWs(s, r.pos) = Len(s) + 1
    THEN [ok |-> TRUE, val |-> r.val]
    ELSE [ok |-> FALSE, val |-> JNull]

(***************************************************************************)
(* State.                                                                  *)
(***************************************************************************)
VARIABLES
    config,          \* the Config object: the attributes the code reads
    email_data,      \* the item being processed: [subject, from, body]
    \* AIService.process_email_with_ai / _call_openai
    aiPc,            \* "idle", "call" (in the model loop), "done"
    models_to_try,   \* the candidate list of this call
    aiIdx,           \* position of the loop in models_to_try
    last_error,      \* the local last_error
    aiAttempts,      \* the attempts of this call, in order: [model, truth, text]
    observedError,   \* the last exception the provider raised in this call
    ai_response,     \* the text _call_openai returned
    aiRaised,        \* the exception _call_openai raised
    ai_result,       \* the dict process_email_with_ai returned
    \* AnalysisAgent.analyze_email and CoordinatorAgent.process_single_email
    later_models,    \* the fallback models that would answer this item with text
    coPc,            \* "idle", "analysis_failed", "analyzed", "processed"
    agAttempts,      \* the provider calls of analyze_email, in order: [model, truth]
    analysis_result, \* the dict analyze_email returned
    co_result,       \* the dict process_single_email returned on failure
    \* WhatsAppService.send_whatsapp_message
    waPc,            \* "idle", "twilio", "callmebot1", "callmebot2", "email", "done"
    waAttempts,      \* the transport attempts of this call, in order: [channel, ok]
    success_count,   \* the local success_count
    total_attempts,  \* the local total_attempts
    waResult,        \* the bool send_whatsapp_message returned
    waLast,          \* what the last transport call of this call gave
    \* CalendarService
    calendar_events, \* the events of the primary calendar, in order of creation
    event_details,   \* the request (a dict) handed to _create_single_event
    calPc,           \* "idle", "done", "returned" (from the service's list call)
    calListing,      \* whether the list request of the last call worked: "ok", "error"
    calMatched,      \* what _event_exists returned in the last call
    calSubmitted,    \* the event bodies the last call submitted to events().insert
    calReturn,       \* the bool the last call returned
    \* CalendarAgent.create_multiple_events
    calendar_service, \* CalendarService.calendar_service: "service" or "None"
    events_list,     \* the batch handed to create_multiple_events
    batchOutcomes,   \* per request of the batch: "matched", "created" or "failed"
    batch_report,    \* the dict create_multiple_events returned
    \* CoordinatorAgent
    stats,           \* self.stats: the four counters
    coOptions,       \* the last item's options: [send_notification, create_event]
    coRan,           \* whether step 3 of the last item called the calendar agent
    coOutcomes,      \* per event request of the last item: "matched", "created", "failed"
    itemsDone,       \* the number of process_single_email calls made so far
    email_result,    \* what the email agent returned to process_all_emails
    emails,          \* the list process_all_emails fetched
    processing_results, \* the local processing_results of the run
    runPc,           \* "idle", "loop", "done"
    run_result,      \* the dict process_all_emails returned
    runAnalyses,     \* per item of the run: the dict analyze_email returned
    health_report,   \* the dict run_health_check returned
    coSteps,         \* the calls made for the items of a run, in order: [item, step]
    notification_result, \* the local notification_result of process_single_email
    calendar_result, \* the local calendar_result of process_single_email
    runsDone,        \* the number of process_all_emails calls that have returned
    workflow_status  \* the dict get_workflow_status returned

envVars == <<config, email_data>>
aiVars  == <<aiPc, models_to_try, aiIdx, last_error, aiAttempts, observedError,
             ai_response, aiRaised, ai_result>>
agVars  == <<later_models, coPc, agAttempts, analysis_result, co_result>>
waVars  == <<waPc, waAttempts, success_count, total_attempts, waResult, waLast>>
calVars == <<calendar_events, event_details, calPc, calListing, calMatched, calSubmitted,
             calReturn>>
batchVars == <<calendar_service, events_list, batchOutcomes, batch_report>>
coVars  == <<stats, coOptions, coRan, coOutcomes, itemsDone>>
runVars == <<email_result, emails, processing_results, runPc, run_result, runAnalyses>>
stepVars == <<coSteps, notification_result, calendar_result, runsDone, workflow_status>>
restVars == <<coVars, runVars, health_report, stepVars>>
moreVars == <<calVars, batchVars, restVars>>
vars    == <<envVars, aiVars, agVars, waVars, moreVars>>

(***************************************************************************)
(* Configuration and items.                                                *)
(***************************************************************************)

\* An unset entry (None, or an empty environment variable) is "".
BaseConfig ==
    [AI_MODEL |-> "gpt-4o", OPENAI_API_KEY |-> "", ANTHROPIC_API_KEY |-> "",
     TWILIO_ACCOUNT_SID |-> "", TWILIO_AUTH_TOKEN |-> "",
     YOUR_WHATSAPP_NUMBER |-> "",
     CALLMEBOT_API_KEY |-> "", CALLMEBOT_PHONE |-> "",
     CALLMEBOT_API_KEY_2 |-> "", CALLMEBOT_PHONE_2 |-> "",
     GMAIL_USER |-> "", GMAIL_PASSWORD |-> ""]

\* Values of AI_MODEL: unset, the head of the fallback list, a later name of it,
\* and names outside it.
AIModels == {"", "gpt-4o", "gpt-4", "gpt-5-mini"}

Secrets == {"", "secret"}

Ten == "0123456789"
Fifty == Ten \o Ten \o Ten \o Ten \o Ten

\* A body of 101 characters.
LongBody == Fifty \o Fifty \o "!"

Emails ==
    { [subject |-> "Sports Day", from |-> "school@example.com",
       body |-> "Sports Day is on Friday."],
      [subject |-> "", from |-> "office@example.com", body |-> LongBody] }

NoEmail == [subject |-> "", from |-> "", body |-> ""]

(***************************************************************************)
(* The AI completion provider: what one call of                            *)
(* chat.completions.create can give.  Every outcome carries `truth`, what  *)
(* the outcome is (non-blank text, a blank response, a model-unavailable   *)
(* error, another error), which the code must find out from the text.      *)
(***************************************************************************)

ErrorLookalike ==
    "{\"gist\": \"Error processing email: Sports Day\", \"hasEvent\": false, \"eventDetails\": {}}"

\* A response of 201 characters without JSON.
LongResponse == Fifty \o Fifty \o Fifty \o Fifty \o "!"

\* Non-blank response texts.
RawResponses ==
    { "{\"gist\": \"Sports day on Friday\", \"hasEvent\": true, \"eventDetails\": {\"title\": \"Sports Day\", \"startDate\": \"2024-05-01\"}, \"priority\": \"high\", \"actionItems\": [\"Pack sports kit\"], \"category\": \"sports\"}",
      "Here is the analysis: {\"gist\": \"Fees are due\", \"hasEvent\": false, \"eventDetails\": {}} Hope it helps.",
      "{\"gist\": \"\", \"hasEvent\": false}",
      "{\"hasEvent\": true, \"eventDetails\": {}}",
      "{\"gist\": \"Trip\", \"hasEvent\": false, \"eventDetails\": {\"title\": \"Trip\"}}",
      "{\"gist\": \"Concert\", \"hasEvent\": true}",
      "{\"gist\": \"Two events\", \"hasEvent\": true, \"eventDetails\": [{\"title\": \"A\"}, {\"title\": \"B\"}]}",
      "{\"gist\": \"cut off",
      "} stray {",
      "The email is about the sports day.",
      LongResponse,
      ErrorLookalike }

BlankTexts == {"", " \n "}

UnavailableErrors ==
    { "Error code: 404 - model_not_found",
      "The Model gpt-5-mini Does Not Exist or you do not have access to it." }

OtherErrors == { "Rate limit reached for requests", "Connection error." }

NoClientError == "'NoneType' object has no attribute 'chat'"

ContentOutcome(text, isNone) ==
    [kind |-> "content", isNone |-> isNone, text |-> text,
     truth |-> IF text \in RawResponses THEN "text" ELSE "blank"]

ErrorOutcome(msg) ==
    [kind |-> "error", isNone |-> FALSE, text |-> msg,
     truth |-> IF msg \in UnavailableErrors THEN "unavailable" ELSE "other"]

\* message.content is a str or None; the call may raise instead.
ProviderOutcomes ==
    {ContentOutcome(t, FALSE) : t \in RawResponses \cup BlankTexts}
    \cup {ContentOutcome("", TRUE)}
    \cup {ErrorOutcome(m) : m \in UnavailableErrors \cup OtherErrors}

\* Without an API key openai_client is None and the attribute access raises.
OutcomesOf(cfg) ==
    IF cfg.OPENAI_API_KEY = "" THEN {ErrorOutcome(NoClientError)}
    ELSE ProviderOutcomes

\* An exception value, and None in its place; msg is str() of it.
Exc(m)  == [raised |-> TRUE, msg |-> m]
NoneExc == [raised |-> FALSE, msg |-> "None"]

(***************************************************************************)
(* AIService._call_openai                                                  *)
(***************************************************************************)

fallback_models == <<"gpt-4o", "gpt-4o-mini", "gpt-4-turbo", "gpt-4", "gpt-3.5-turbo">>

InSeq(e, seq) == \E i \in 1..Len(seq) : seq[i] = e

\* for model in fallback_models: if model not in models_to_try: append
RECURSIVE AddFallbacks(_, _)
AddFallbacks(models, i) ==
    IF i > Len(fallback_models) THEN models
    ELSE AddFallbacks(IF InSeq(fallback_models[i], models) THEN models
                      ELSE Append(models, fallback_models[i]), i + 1)

\* Faulty variant: the fallbacks are appended without the `not in` test.
ModelsToTry_NoDedup(aiModel) ==
    (IF aiModel # "" THEN <<aiModel>> ELSE <<>>) \o fallback_models

\* The candidate list: the configured model first, if set, then the fallbacks.
ModelsToTry(aiModel) ==
    AddFallbacks(IF aiModel # "" THEN <<aiModel>> ELSE <<>>, 1)

\* not content or content.strip() == ""
IsEmptyContent(o) == o.isNone \/ o.text = "" \/ Strip(o.text) = ""

\* Faulty variant: every error lets the loop continue.
IsModelUnavailable_Always(msg) == Len(msg) >= 0

\* "model_not_found" in str(e).lower() or "does not exist" in str(e).lower()
IsModelUnavailable(msg) ==
    Contains(Lower(msg), "model_not_found") \/ Contains(Lower(msg), "does not exist")

AllFailedMessage(err) == "All OpenAI models failed. Last error: " \o err.msg

(***************************************************************************)
(* AIService._parse_ai_response and its helpers.  A result dict is a       *)
(* function from keys to JSON values.                                      *)
(***************************************************************************)

\* f"Email from {sender} about '{subject}': {body_preview}"
ExtractSummaryFromEmail(e) ==
    LET body_preview == IF Len(e.body) > 100 THEN PySlice(e.body, 0, 100) \o "..."
                        ELSE e.body
    IN  "Email from " \o e.from \o " about '" \o e.subject \o "': " \o body_preview

\* Faulty variant: the raw text is used also when it is empty.
CreateFallbackResponse_RawOnly(e, response) ==
    [gist |-> JStr(IF Len(response) > 200 THEN PySlice(response, 0, 200) \o "..."
                   ELSE response),
     hasEvent |-> JBool(FALSE), eventDetails |-> JObj(EmptyDict),
     priority |-> JStr("medium"), actionItems |-> JList(<<>>),
     category |-> JStr("other")]

\* ai_response is "" for None.
CreateFallbackResponse(e, response) ==
    LET summary == IF response # "" /\ Len(response) > 200
                   THEN PySlice(response, 0, 200) \o "..."
                   ELSE IF response # "" THEN response
                   ELSE ExtractSummaryFromEmail(e)
    IN  [gist |-> JStr(summary), hasEvent |-> JBool(FALSE),
         eventDetails |-> JObj(EmptyDict), priority |-> JStr("medium"),
         actionItems |-> JList(<<>>), category |-> JStr("other")]

ParseAIResponse(response, e) ==
    IF response = "" \/ Strip(response) = "" THEN CreateFallbackResponse(e, "")
    ELSE LET start_idx == Find(response, "{")
             end_idx   == RFind(response, "}") + 1
         IN  IF start_idx >= 0 /\ end_idx > start_idx
             THEN LET parsed == JsonLoads(PySlice(response, start_idx, end_idx)) IN
                  IF ~parsed.ok THEN CreateFallbackResponse(e, response)
                  ELSE IF ~Truthy(Get(parsed.val.v, "gist"))
                       THEN Put(parsed.val.v, "gist", JStr(ExtractSummaryFromEmail(e)))
                       ELSE parsed.val.v
             ELSE CreateFallbackResponse(e, response)

\* The dict process_email_with_ai returns from its except branch.
AIErrorResult(e) ==
    [gist |-> JStr("Error processing email: " \o e.subject),
     hasEvent |-> JBool(FALSE), eventDetails |-> JObj(EmptyDict)]

(***************************************************************************)
(* AnalysisAgent._parse_ai_response: no guard on the indices, no backfill. *)
(***************************************************************************)

AgentParseAIResponse(response) ==
    LET start_idx == Find(response, "{")
        end_idx   == RFind(response, "}") + 1
        parsed    == JsonLoads(PySlice(response, start_idx, end_idx))
    IN  IF parsed.ok THEN parsed.val.v
        ELSE [gist |-> JStr(IF Len(response) > 200
                            THEN PySlice(response, 0, 200) \o "..."
                            ELSE response),
              hasEvent |-> JBool(FALSE), eventDetails |-> JObj(EmptyDict)]

(***************************************************************************)
(* AIService.process_email_with_ai, one step per blocking provider call.   *)
(* A step runs the code up to the next provider call or to the return of   *)
(* process_email_with_ai.                                                  *)
(***************************************************************************)

\* Entry: the prompt is built and _call_openai sets up its candidate list.
ProcessEmailWithAI(e) ==
    /\ aiPc \in {"idle", "done"}
    /\ email_data' = e
    /\ aiPc' = "call"
    /\ models_to_try' = ModelsToTry(config.AI_MODEL)
    /\ aiIdx' = 1
    /\ last_error' = NoneExc
    /\ aiAttempts' = <<>>
    /\ observedError' = NoneExc
    /\ ai_response' = ""
    /\ aiRaised' = NoneExc
    /\ ai_result' = EmptyDict
    /\ UNCHANGED <<config, agVars, waVars, moreVars>>

\* _call_openai returns content: process_email_with_ai parses and returns it.
ReturnContent(content) ==
    /\ aiPc' = "done"
    /\ ai_response' = content
    /\ ai_result' = ParseAIResponse(content, email_data)
    /\ UNCHANGED <<aiIdx, aiRaised>>

\* _call_openai raises err: the except branch of process_email_with_ai.
RaiseError(err) ==
    /\ aiPc' = "done"
    /\ aiRaised' = err
    /\ ai_result' = AIErrorResult(email_data)
    /\ UNCHANGED <<aiIdx, ai_response>>

\* `continue`: the next candidate, or after the last one the raise that
\* follows the loop, with lastErr the value of last_error at that point.
NextCandidate(lastErr) ==
    IF aiIdx < Len(models_to_try)
    THEN /\ aiIdx' = aiIdx + 1
         /\ UNCHANGED <<aiPc, ai_response, aiRaised, ai_result>>
    ELSE RaiseError(Exc(AllFailedMessage(lastErr)))

\* One iteration of `for model in models_to_try` with the provider's outcome o.
CallOpenAIAttempt(o) ==
    /\ aiPc = "call"
    /\ aiIdx <= Len(models_to_try)
    /\ aiAttempts' = Append(aiAttempts,
                            [model |-> models_to_try[aiIdx], truth |-> o.truth,
                             text |-> IF o.truth = "text" THEN o.text ELSE ""])
    /\ observedError' = IF o.kind = "error" THEN Exc(o.text) ELSE observedError
    /\ IF o.kind = "content"
       THEN /\ UNCHANGED last_error
            /\ IF IsEmptyContent(o)
               THEN NextCandidate(last_error)
               ELSE ReturnContent(o.text)
       ELSE /\ last_error' = Exc(o.text)
            /\ IF IsModelUnavailable(o.text)
               THEN NextCandidate(Exc(o.text))
               ELSE RaiseError(Exc(o.text))
    /\ UNCHANGED <<envVars, models_to_try, agVars, waVars, moreVars>>

\* The state of the AI service before any call.
AIIdle ==
    /\ aiPc = "idle"
    /\ models_to_try = <<>>
    /\ aiIdx = 1
    /\ last_error = NoneExc
    /\ aiAttempts = <<>>
    /\ observedError = NoneExc
    /\ ai_response = ""
    /\ aiRaised = NoneExc
    /\ ai_result = EmptyDict

\* The state of the coordinator and its analysis agent before any item.
AgentIdle ==
    /\ later_models = {}
    /\ coPc = "idle"
    /\ agAttempts = <<>>
    /\ analysis_result = EmptyDict
    /\ co_result = EmptyDict

\* The state of the WhatsApp service before any call.
\* No transport call made yet.
NoOutcome == [kind |-> "none", status_code |-> 0, text |-> ""]

WAIdle ==
    /\ waPc = "idle"
    /\ waAttempts = <<>>
    /\ success_count = 0
    /\ total_attempts = 0
    /\ waResult = FALSE
    /\ waLast = NoOutcome

\* The state of the calendar service before any call, with an empty calendar.
CalIdle ==
    /\ calendar_events = <<>>
    /\ event_details = EmptyDict
    /\ calPc = "idle"
    /\ calListing = "ok"
    /\ calMatched = FALSE
    /\ calSubmitted = <<>>
    /\ calReturn = FALSE

\* CoordinatorAgent.__init__: the counters of a new coordinator.
NewStats == [emails_processed |-> 0, events_created |-> 0, notifications_sent |-> 0,
             errors |-> 0]

\* No fetch has been made.
NoFetch == [success |-> FALSE, error |-> "", emails |-> <<>>]

\* A coordinator that has not been called.
RestIdle ==
    /\ stats = NewStats
    /\ coOptions = [send_notification |-> TRUE, create_event |-> TRUE]
    /\ coRan = FALSE
    /\ coOutcomes = <<>>
    /\ itemsDone = 0
    /\ email_result = NoFetch
    /\ emails = <<>>
    /\ processing_results = <<>>
    /\ runPc = "idle"
    /\ run_result = EmptyDict
    /\ runAnalyses = <<>>
    /\ health_report = EmptyDict
    /\ coSteps = <<>>
    /\ notification_result = JNull
    /\ calendar_result = JNull
    /\ runsDone = 0
    /\ workflow_status = EmptyDict

\* The state of the components SpecAI, SpecParse, SpecAnalysis and SpecWA
\* leave alone.
MoreIdle ==
    /\ RestIdle
    /\ CalIdle
    /\ calendar_service = "service"
    /\ events_list = <<>>
    /\ batchOutcomes = <<>>
    /\ batch_report = EmptyDict

InitAI ==
    /\ config \in {[BaseConfig EXCEPT !.AI_MODEL = m, !.OPENAI_API_KEY = k] :
                     m \in AIModels, k \in Secrets}
    /\ email_data = NoEmail
    /\ AIIdle
    /\ AgentIdle
    /\ WAIdle
    /\ MoreIdle

NextAI ==
    \/ \E e \in Emails : ProcessEmailWithAI(e)
    \/ \E o \in OutcomesOf(config) : CallOpenAIAttempt(o)

SpecAI == InitAI /\ [][NextAI]_vars

\* The provider call of an iteration returns or raises: chat.completions.create
\* is a blocking call, and the loop makes the next one as soon as it is back.
SpecAILive == SpecAI /\ WF_vars(\E o \in OutcomesOf(config) : CallOpenAIAttempt(o))

(***************************************************************************)
(* The two response parsers applied to any response text (SpecParse).      *)
(***************************************************************************)

\* Further response texts: more shapes of valid and malformed JSON.
MoreResponses ==
    { "{}",
      "{\"gist\": null, \"hasEvent\": false}",
      "{\"gist\": []}",
      "{\"gist\": \"ok\"} and a stray }",
      "only a closing brace }",
      "{\"gist\": \"ok\", }",
      "\n{\"gist\": \" \", \"hasEvent\": null, \"eventDetails\": null}\n" }

ParseInputs == RawResponses \cup BlankTexts \cup MoreResponses

\* AIService._parse_ai_response(ai_response, email_data)
ServiceParse ==
    /\ aiPc = "parse"
    /\ ai_result' = ParseAIResponse(ai_response, email_data)
    /\ aiPc' = "parsed"
    /\ UNCHANGED <<envVars, models_to_try, aiIdx, last_error, aiAttempts,
                   observedError, ai_response, aiRaised, agVars, waVars, moreVars>>

\* AnalysisAgent._parse_ai_response(ai_response, email_data)
AgentParse ==
    /\ coPc = "parse"
    /\ analysis_result' = AgentParseAIResponse(ai_response)
    /\ coPc' = "parsed"
    /\ UNCHANGED <<envVars, aiVars, later_models, agAttempts, co_result, waVars,
                   moreVars>>

InitParse ==
    /\ config = BaseConfig
    /\ email_data \in Emails
    /\ ai_response \in ParseInputs
    /\ aiPc = "parse"
    /\ coPc = "parse"
    /\ models_to_try = <<>>
    /\ aiIdx = 1
    /\ last_error = NoneExc
    /\ aiAttempts = <<>>
    /\ observedError = NoneExc
    /\ aiRaised = NoneExc
    /\ ai_result = EmptyDict
    /\ later_models = {}
    /\ agAttempts = <<>>
    /\ analysis_result = EmptyDict
    /\ co_result = EmptyDict
    /\ WAIdle
    /\ MoreIdle

NextParse == ServiceParse \/ AgentParse

SpecParse == InitParse /\ [][NextParse]_vars

(***************************************************************************)
(* Properties of AIService._call_openai and process_email_with_ai          *)
(* (SpecAI).                                                               *)
(***************************************************************************)

\* The candidate order as stated: the configured default, then the fixed list
\* without the default.
StatedOrder(aiModel) ==
    (IF aiModel = "" THEN <<>> ELSE <<aiModel>>)
    \o SelectSeq(fallback_models, LAMBDA m : m # aiModel)

SoftTruths == {"blank", "unavailable"}

\* _call_openai has returned text / has raised.
Returned == aiPc = "done" /\ ~aiRaised.raised
Raised   == aiPc = "done" /\ aiRaised.raised

LastAttempt == aiAttempts[Len(aiAttempts)]

\* C1: the candidates are attempted in the stated order (default, then the
\* fixed list without the default); a candidate is passed over only when its
\* response is blank or its error is model-unavailable; and the text
\* returned is the response of the first candidate, in that order, whose
\* response is non-blank.
C1_FirstNonBlankInOrder ==
    /\ Len(aiAttempts) <= Len(StatedOrder(config.AI_MODEL))
    /\ \A i \in 1..Len(aiAttempts) :
          aiAttempts[i].model = StatedOrder(config.AI_MODEL)[i]
    /\ \A i \in 1..(Len(aiAttempts) - 1) : aiAttempts[i].truth \in SoftTruths
    /\ Returned => /\ Len(aiAttempts) >= 1
                   /\ LastAttempt.truth = "text"
                   /\ ai_response = LastAttempt.text
    /\ (Len(aiAttempts) >= 1 /\ LastAttempt.truth = "text") => Returned

\* C1 witness: the default (a name of the fixed list) gave a blank response,
\* the next candidate was unavailable, and the third one's text was returned.
C1_Witness ==
    /\ Returned
    /\ config.AI_MODEL = "gpt-4"
    /\ Len(aiAttempts) = 3
    /\ aiAttempts[1].truth = "blank"
    /\ aiAttempts[2].truth = "unavailable"
    /\ aiAttempts[3].model = "gpt-4o-mini"

\* C2: an error that is not model-unavailable on candidate i ends the call:
\* no candidate after i is attempted and the call raises that error, it
\* returns no text.
C2_HardErrorAborts ==
    \A i \in 1..Len(aiAttempts) :
        aiAttempts[i].truth = "other" =>
            /\ i = Len(aiAttempts)
            /\ Raised
            /\ aiRaised = observedError
            /\ ai_response = ""

\* C2 witness: the third candidate raised a hard error after two soft failures.
C2_Witness ==
    /\ Raised
    /\ Len(aiAttempts) = 3
    /\ LastAttempt.truth = "other"
    /\ Len(models_to_try) > 3

\* Every candidate was attempted and each ended in a soft failure.
Exhausted ==
    /\ aiPc = "done"
    /\ Len(aiAttempts) >= 1
    /\ \A i \in 1..Len(aiAttempts) : aiAttempts[i].truth \in SoftTruths

\* C3: when every candidate ends in a soft failure, the call raises only
\* after each candidate was attempted, and the error raised carries the last
\* error observed in the call, for every mix of blank responses and
\* unavailable errors (also when every response was blank).
C3_ExhaustedCarriesLastError ==
    Exhausted =>
        /\ Raised
        /\ Len(aiAttempts) = Len(StatedOrder(config.AI_MODEL))
        /\ observedError.raised => aiRaised.msg = AllFailedMessage(observedError)
        /\ aiRaised.msg # AllFailedMessage(NoneExc)

\* C25: in one call of _call_openai no model name is attempted twice, at
\* most 6 attempts are made (the default and the five names of the fixed
\* list), and the call ends by returning text or raising, for every default
\* model: unset, a name of the fixed list, a name outside it.
C25_NoModelTwiceAndTerminates ==
    /\ [](/\ \A i \in 1..Len(aiAttempts) : \A j \in 1..Len(aiAttempts) :
                 i # j => aiAttempts[i].model # aiAttempts[j].model
          /\ Len(aiAttempts) <= Len(fallback_models) + 1
          /\ Len(fallback_models) + 1 = 6)
    /\ ((aiPc = "call") ~> (Returned \/ Raised))

\* C25 witness: the default is a name outside the fixed list; it and the five
\* names of the list were each attempted once, six attempts, and the call
\* raised.
C25_Witness ==
    /\ Raised
    /\ config.AI_MODEL = "gpt-5-mini"
    /\ Len(aiAttempts) = 6
    /\ {aiAttempts[i].model : i \in 1..6} =
           {"gpt-5-mini", "gpt-4o", "gpt-4o-mini", "gpt-4-turbo", "gpt-4", "gpt-3.5-turbo"}

\* The results process_email_with_ai can return for item e when the analysis
\* succeeds.
SuccessfulResults ==
    [e \in Emails |-> {ParseAIResponse(r, e) : r \in RawResponses}]

\* C4: when the analysis fails (a hard error, or all candidates exhausted)
\* the caller gets an outcome it can tell from a successful result: the
\* value returned is none that a successful analysis of the item returns.
C4_FailureDistinguishable ==
    Raised => ai_result \notin SuccessfulResults[email_data]

(***************************************************************************)
(* CoordinatorAgent.process_single_email, step 1: the analysis agent       *)
(* (SpecAnalysis).                                                         *)
(***************************************************************************)

AgentModels == {"", "gpt-4o", "gpt-5-mini", "claude-3-sonnet"}

\* Which of the fallback models would answer with non-blank text.
LaterWorlds == { {}, {"gpt-4o-mini"}, {"gpt-4", "gpt-3.5-turbo"} }

NoOpenAIAttr == "'AnalysisAgent' object has no attribute 'openai_client'"
NoAnthropicAttr == "'AnalysisAgent' object has no attribute 'anthropic_client'"
NoneFindError == "'NoneType' object has no attribute 'find'"

\* self.config.AI_MODEL.startswith('gpt')
UsesOpenAI(cfg) == StartsWith(cfg.AI_MODEL, "gpt")

\* _setup_ai_clients sets the client attribute only when the key is set.
AgentHasClient(cfg) ==
    IF UsesOpenAI(cfg) THEN cfg.OPENAI_API_KEY # "" ELSE cfg.ANTHROPIC_API_KEY # ""

\* The model name the agent's single provider call carries.
AgentModel(cfg) ==
    IF UsesOpenAI(cfg) THEN cfg.AI_MODEL ELSE "claude-3-sonnet-20240229"

\* What the agent's provider call can give; Anthropic's text is never None.
AgentOutcomesOf(cfg) ==
    IF ~AgentHasClient(cfg)
    THEN {ErrorOutcome(IF UsesOpenAI(cfg) THEN NoOpenAIAttr ELSE NoAnthropicAttr)}
    ELSE IF UsesOpenAI(cfg) THEN ProviderOutcomes
    ELSE ProviderOutcomes \ {ContentOutcome("", TRUE)}

\* The dict analyze_email returns from its except branch.
AnalysisFailure(e, msg) ==
    [success |-> JBool(FALSE), error |-> JStr(msg),
     gist |-> JStr("Error analyzing email: " \o e.subject),
     hasEvent |-> JBool(FALSE), eventDetails |-> JObj(EmptyDict)]

\* AnalysisAgent.analyze_email with the outcome o of its provider call.
AnalyzeEmail(e, o) ==
    IF o.kind = "error" THEN AnalysisFailure(e, o.text)
    ELSE IF o.isNone THEN AnalysisFailure(e, NoneFindError)
    ELSE Put(AgentParseAIResponse(o.text), "success", JBool(TRUE))

\* The dict process_single_email returns when the analysis did not succeed.
CoordinatorFailure(e, analysis) ==
    [success |-> JBool(FALSE),
     error |-> JStr("AI analysis failed: " \o Get(analysis, "error").v),
     email_subject |-> JStr(e.subject)]

\* process_single_email up to the end of step 1, for item e, with o the
\* outcome of the provider call and w the fallback models that would answer.
\* The step keeps nothing from one item to the next: one item per behaviour.
CoordinatorAnalyze(e, o, w) ==
    /\ coPc = "idle"
    /\ email_data' = e
    /\ later_models' = w
    /\ agAttempts' = IF AgentHasClient(config)
                      THEN <<[model |-> AgentModel(config), truth |-> o.truth]>>
                      ELSE <<>>
    /\ analysis_result' = AnalyzeEmail(e, o)
    /\ IF Truthy(Get(analysis_result', "success"))
       THEN /\ coPc' = "analyzed"
            /\ co_result' = EmptyDict
       ELSE /\ coPc' = "analysis_failed"
            /\ co_result' = CoordinatorFailure(e, analysis_result')
    /\ UNCHANGED <<config, aiVars, waVars, moreVars>>

InitAnalysis ==
    /\ config \in {[BaseConfig EXCEPT !.AI_MODEL = m, !.OPENAI_API_KEY = k,
                                      !.ANTHROPIC_API_KEY = a] :
                     m \in AgentModels, k \in Secrets, a \in Secrets}
    /\ email_data = NoEmail
    /\ AIIdle
    /\ AgentIdle
    /\ WAIdle
    /\ MoreIdle

NextAnalysis ==
    \E e \in Emails, o \in AgentOutcomesOf(config), w \in LaterWorlds :
        CoordinatorAnalyze(e, o, w)

SpecAnalysis == InitAnalysis /\ [][NextAnalysis]_vars

(***************************************************************************)
(* WhatsAppService.send_whatsapp_message, one step per blocking transport  *)
(* call (SpecWA).                                                          *)
(***************************************************************************)

\* What requests.get can give for the CallMeBot URL: a response with a
\* status code and a body, or a RequestException.
CallMeBotResponse(code, text) == [kind |-> "response", status_code |-> code, text |-> text]

CallMeBotOutcomes ==
    { CallMeBotResponse(200, "Message queued. You will receive it in a few seconds."),
      CallMeBotResponse(210, "<p>Your messages was added into the queue</p>"),
      CallMeBotResponse(200, " <html>Message to: +4412345 sent</html>\n"),
      CallMeBotResponse(200, "Account is Paused. Message queued"),
      CallMeBotResponse(200, "APIKey is invalid"),
      CallMeBotResponse(203, "Message queued"),
      CallMeBotResponse(500, "<html>Message to: nobody</html>"),
      CallMeBotResponse(210, "Rate limit reached"),
      CallMeBotResponse(503, "Account is Paused. Message queued"),
      [kind |-> "exception", status_code |-> 0, text |-> "Read timed out."] }

\* What messages.create (Twilio) and the SMTP session can give.
SendOutcomes == {"sent", "error"}

\* The outcome r of messages.create or of the SMTP session, as a record.
SendOutcome(r) == [kind |-> r, status_code |-> 0, text |-> ""]

\* _setup_client: twilio_client is a Client or None.
TwilioClient(cfg) == cfg.TWILIO_ACCOUNT_SID # "" /\ cfg.TWILIO_AUTH_TOKEN # ""

\* self.config.TWILIO_ACCOUNT_SID and self.twilio_client
TwilioConfigured(cfg) == cfg.TWILIO_ACCOUNT_SID # "" /\ TwilioClient(cfg)

\* Faulty variant: the primary pair counts as configured with its key alone.
PrimaryPair_KeyOnly(cfg) == cfg.CALLMEBOT_API_KEY # ""

PrimaryPair(cfg) == cfg.CALLMEBOT_API_KEY # "" /\ cfg.CALLMEBOT_PHONE # ""

SecondaryPair(cfg) == cfg.CALLMEBOT_API_KEY_2 # "" /\ cfg.CALLMEBOT_PHONE_2 # ""

\* Faulty variant: the status code and the queue text are tested before the
\* paused account.
SendViaCallMeBot_StatusFirst(r) ==
    IF r.kind = "exception" THEN FALSE
    ELSE IF /\ r.status_code \in {200, 210}
            /\ \/ Contains(Strip(r.text), "Message queued")
               \/ Contains(Strip(r.text), "messages was added into the queue")
    THEN TRUE
    ELSE IF Contains(Strip(r.text), "Account is") /\ Contains(Strip(r.text), "Paused")
    THEN FALSE
    ELSE /\ r.status_code \in {200, 210}
         /\ StartsWith(Strip(r.text), "<")
         /\ Contains(Strip(r.text), "Message to:")

\* The bool _send_via_callmebot returns for the outcome r of requests.get.
SendViaCallMeBot(r) ==
    IF r.kind = "exception" THEN FALSE
    ELSE LET response_text == Strip(r.text)
             paused == Contains(response_text, "Account is") /\ Contains(response_text, "Paused")
         IN  IF paused THEN FALSE
             ELSE IF r.status_code \in {200, 210}
             THEN IF \/ Contains(response_text, "Message queued")
                     \/ Contains(response_text, "messages was added into the queue")
                  THEN TRUE
                  ELSE StartsWith(response_text, "<") /\ Contains(response_text, "Message to:")
             ELSE FALSE

\* The bool _send_email_fallback returns for the outcome r of the SMTP session.
SendEmailFallback(cfg, r) ==
    IF cfg.GMAIL_USER = "" \/ cfg.GMAIL_PASSWORD = "" THEN FALSE
    ELSE r = "sent"

\* Faulty variant: the call ends after the CallMeBot attempts.
AfterCallMeBot_NoEmail(count) == "done"

\* Faulty variant: the email fallback follows the CallMeBot attempts always.
AfterCallMeBot_AlwaysEmail(count) == "email"

\* After the CallMeBot attempts: return True, or go on to the email fallback.
AfterCallMeBot(count) == IF count > 0 THEN "done" ELSE "email"

\* The first CallMeBot pair configured, or what follows when there is none.
CallMeBotStart(cfg) ==
    IF PrimaryPair(cfg) THEN "callmebot1"
    ELSE IF SecondaryPair(cfg) THEN "callmebot2"
    ELSE AfterCallMeBot(0)

\* Entry of send_whatsapp_message, up to its first transport call.
SendWhatsAppMessage ==
    /\ waPc \in {"idle", "done"}
    /\ waPc' = IF TwilioConfigured(config) THEN "twilio" ELSE CallMeBotStart(config)
    /\ waAttempts' = <<>>
    /\ success_count' = 0
    /\ total_attempts' = 0
    /\ waResult' = FALSE
    /\ waLast' = NoOutcome
    /\ UNCHANGED <<envVars, aiVars, agVars, moreVars>>

\* _send_via_twilio: it returns True, or messages.create raises and the
\* except branch of send_whatsapp_message goes to the email fallback.
SendViaTwilio(r) ==
    /\ waPc = "twilio"
    /\ waAttempts' = Append(waAttempts, [channel |-> "twilio", ok |-> r = "sent"])
    /\ waLast' = SendOutcome(r)
    /\ IF r = "sent"
       THEN /\ waResult' = TRUE
            /\ waPc' = "done"
       ELSE /\ waResult' = FALSE
            /\ waPc' = "email"
    /\ UNCHANGED <<envVars, aiVars, agVars, success_count, total_attempts, moreVars>>

\* Faulty variant: a successful attempt ends the CallMeBot attempts.
CallMeBotAttempt_StopAtSuccess(r) ==
    /\ waPc \in {"callmebot1", "callmebot2"}
    /\ waAttempts' = Append(waAttempts, [channel |-> waPc, ok |-> SendViaCallMeBot(r)])
    /\ waLast' = r
    /\ total_attempts' = total_attempts + 1
    /\ success_count' = IF SendViaCallMeBot(r) THEN success_count + 1 ELSE success_count
    /\ waPc' = IF SendViaCallMeBot(r) THEN "done"
               ELSE IF waPc = "callmebot1" /\ SecondaryPair(config) THEN "callmebot2"
               ELSE "email"
    /\ waResult' = (waPc' = "done")
    /\ UNCHANGED <<envVars, aiVars, agVars, moreVars>>

\* One CallMeBot attempt, for the primary or the secondary pair.
CallMeBotAttempt(r) ==
    /\ waPc \in {"callmebot1", "callmebot2"}
    /\ waAttempts' = Append(waAttempts, [channel |-> waPc, ok |-> SendViaCallMeBot(r)])
    /\ waLast' = r
    /\ total_attempts' = total_attempts + 1
    /\ success_count' = IF SendViaCallMeBot(r) THEN success_count + 1 ELSE success_count
    /\ waPc' = IF waPc = "callmebot1" /\ SecondaryPair(config) THEN "callmebot2"
               ELSE AfterCallMeBot(success_count')
    /\ waResult' = (waPc' = "done")
    /\ UNCHANGED <<envVars, aiVars, agVars, moreVars>>

\* return self._send_email_fallback(message)
EmailFallback(r) ==
    /\ waPc = "email"
    /\ waAttempts' = Append(waAttempts, [channel |-> "email",
                                          ok |-> SendEmailFallback(config, r)])
    /\ waResult' = SendEmailFallback(config, r)
    /\ waLast' = SendOutcome(r)
    /\ waPc' = "done"
    /\ UNCHANGED <<envVars, aiVars, agVars, success_count, total_attempts, moreVars>>

InitWA ==
    /\ config \in {[BaseConfig EXCEPT !.TWILIO_ACCOUNT_SID = sid, !.TWILIO_AUTH_TOKEN = tok,
                                      !.CALLMEBOT_API_KEY = k1, !.CALLMEBOT_PHONE = p1,
                                      !.CALLMEBOT_API_KEY_2 = k2, !.CALLMEBOT_PHONE_2 = p2,
                                      !.GMAIL_USER = gu, !.GMAIL_PASSWORD = gp] :
                     sid \in Secrets, tok \in Secrets, k1 \in Secrets, p1 \in Secrets,
                     k2 \in Secrets, p2 \in Secrets, gu \in Secrets, gp \in Secrets}
    /\ email_data = NoEmail
    /\ AIIdle
    /\ AgentIdle
    /\ WAIdle
    /\ MoreIdle

NextWA ==
    \/ SendWhatsAppMessage
    \/ \E r \in SendOutcomes : SendViaTwilio(r)
    \/ \E r \in CallMeBotOutcomes : CallMeBotAttempt(r)
    \/ \E r \in SendOutcomes : EmailFallback(r)

SpecWA == InitWA /\ [][NextWA]_vars

(***************************************************************************)
(* Properties of the response parsers (SpecParse).                         *)
(***************************************************************************)

\* The result dict r has a gist and it is not empty.
NonEmptyGist(r) ==
    /\ "gist" \in DOMAIN r
    /\ r.gist \notin {JStr(""), JNull, JList(<<>>), JObj(EmptyDict), JBool(FALSE)}

\* C5: for every raw response (blank, text without braces, braces around
\* malformed JSON, valid JSON without gist, valid JSON with an empty gist)
\* and every item, the result of AIService._parse_ai_response has a
\* non-empty gist.
C5_ServiceGistNonEmpty == aiPc = "parsed" => NonEmptyGist(ai_result)

\* C5 witness: valid JSON without a gist field was parsed and the gist was
\* backfilled from the item.
C5_Witness ==
    /\ aiPc = "parsed"
    /\ ai_response = "{\"hasEvent\": true, \"eventDetails\": {}}"
    /\ DOMAIN ai_result = {"gist", "hasEvent", "eventDetails"}
    /\ ai_result.gist = JStr(ExtractSummaryFromEmail(email_data))

\* The text between the first "{" and the last "}" of the response, parsed.
BracedJson(response) ==
    JsonLoads(PySlice(response, Find(response, "{"), RFind(response, "}") + 1))

\* The response has no text between a first "{" and a last "}" that parses
\* as JSON.
Unparsable(response) ==
    \/ Find(response, "{") < 0
    \/ RFind(response, "}") + 1 <= Find(response, "{")
    \/ ~BracedJson(response).ok

\* The gist of the fallback result as stated: the raw text, cut to 200
\* characters with an ellipsis, when it is not empty, else the summary of the
\* item.
StatedFallbackGist(response, e) ==
    IF response = "" THEN ExtractSummaryFromEmail(e)
    ELSE IF Len(response) > 200 THEN PySlice(response, 0, 200) \o "..."
    ELSE response

\* The dict r has the string s under key k.
HasStr(r, k, s) == k \in DOMAIN r /\ r[k].t = "str" /\ r[k].v = s

\* C26: when the response does not parse as JSON between its first "{" and
\* last "}", or the parsed data has no gist field, the result of
\* AIService._parse_ai_response is the fallback result: the gist from the raw
\* text or the item, hasEvent false, priority "medium", no action items,
\* category "other".
C26_FallbackResult ==
    (/\ aiPc = "parsed"
     /\ \/ Unparsable(ai_response)
        \/ "gist" \notin DOMAIN BracedJson(ai_response).val.v)
        => /\ HasStr(ai_result, "gist", StatedFallbackGist(ai_response, email_data))
           /\ Get(ai_result, "hasEvent") = JBool(FALSE)
           /\ HasStr(ai_result, "priority", "medium")
           /\ Get(ai_result, "actionItems") = JList(<<>>)
           /\ HasStr(ai_result, "category", "other")

\* hasEvent is true only with eventDetails present and non-empty, and false
\* only with eventDetails empty.
EventInvariant(r) ==
    LET hasEvent == "hasEvent" \in DOMAIN r /\ r.hasEvent = JBool(TRUE)
        details  == /\ "eventDetails" \in DOMAIN r
                    /\ r.eventDetails \notin {JNull, JObj(EmptyDict), JList(<<>>), JStr("")}
    IN  hasEvent <=> details

\* C7: every result of the analysis step keeps the invariant between
\* hasEvent and eventDetails, for every parsed AI output, in both parsers.
C7_HasEventMatchesDetails ==
    /\ aiPc = "parsed" => EventInvariant(ai_result)
    /\ coPc = "parsed" => EventInvariant(analysis_result)

(***************************************************************************)
(* Properties of the coordinator's analysis step (SpecAnalysis).           *)
(***************************************************************************)

\* C6: every analysis result with success = true that process_single_email
\* obtains from analyze_email and passes on has a non-empty gist, for every
\* raw AI response.
C6_PassedOnGistNonEmpty == coPc = "analyzed" => NonEmptyGist(analysis_result)

\* The configured model was called and was unavailable or answered blank,
\* while a later fallback model would answer.
DefaultSoftFailed ==
    /\ coPc \in {"analyzed", "analysis_failed"}
    /\ Len(agAttempts) >= 1
    /\ agAttempts[1].model = config.AI_MODEL
    /\ agAttempts[1].truth \in SoftTruths
    /\ later_models \ {config.AI_MODEL} # {}

\* C8: when the configured model is unavailable or answers blank while a
\* later fallback model would answer, the analysis step of
\* process_single_email tries further candidates and the analysis succeeds.
C8_CoordinatorUsesFallbackChain ==
    DefaultSoftFailed =>
        /\ Len(agAttempts) > 1
        /\ coPc = "analyzed"
        /\ NonEmptyGist(analysis_result)

(***************************************************************************)
(* Properties of send_whatsapp_message (SpecWA).                           *)
(***************************************************************************)

EmailAttempts == {i \in 1..Len(waAttempts) : waAttempts[i].channel = "email"}

\* Every Twilio and CallMeBot transport that is configured was attempted in
\* this call, and no attempt of them succeeded.
TiersOneTwoFailed ==
    /\ waPc = "done"
    /\ TwilioConfigured(config) => \E i \in 1..Len(waAttempts) : waAttempts[i].channel = "twilio"
    /\ PrimaryPair(config) => \E i \in 1..Len(waAttempts) : waAttempts[i].channel = "callmebot1"
    /\ SecondaryPair(config) => \E i \in 1..Len(waAttempts) : waAttempts[i].channel = "callmebot2"
    /\ \A i \in 1..Len(waAttempts) : waAttempts[i].channel # "email" => ~waAttempts[i].ok

\* C9: when every configured transport of tiers 1 and 2 has failed, or none
\* is configured, the email fallback is attempted exactly once, as the last
\* attempt, and send_whatsapp_message returns the result of that attempt.
C9_EmailFallbackDecides ==
    TiersOneTwoFailed =>
        /\ EmailAttempts = {Len(waAttempts)}
        /\ waResult = waAttempts[Len(waAttempts)].ok

\* C9 witness: two CallMeBot pairs both failed, the email fallback succeeded
\* and the call returned True.
C9_Witness ==
    /\ waPc = "done"
    /\ waAttempts = << [channel |-> "callmebot1", ok |-> FALSE],
                       [channel |-> "callmebot2", ok |-> FALSE],
                       [channel |-> "email", ok |-> TRUE] >>
    /\ total_attempts = 2
    /\ success_count = 0
    /\ waResult = TRUE

\* C10: when Twilio is configured and its attempt fails with an error, every
\* configured CallMeBot pair is attempted in that call before the email
\* fallback.
C10_TwilioErrorProceedsToCallMeBot ==
    (/\ waPc = "done"
     /\ Len(waAttempts) >= 1
     /\ waAttempts[1] = [channel |-> "twilio", ok |-> FALSE]) =>
        /\ PrimaryPair(config) => Len(waAttempts) >= 2 /\ waAttempts[2].channel = "callmebot1"
        /\ SecondaryPair(config) =>
              \E i \in 2..Len(waAttempts) :
                  /\ waAttempts[i].channel = "callmebot2"
                  /\ \A j \in 1..i : waAttempts[j].channel # "email"

\* C11: the call stops at the first tier that succeeds.  After a successful
\* Twilio attempt nothing else is attempted and the call returns True; when
\* at least one CallMeBot attempt succeeded the call returns True and the
\* email fallback is not attempted.
C11_StopsAtFirstSuccessTier ==
    /\ \A i \in 1..Len(waAttempts) :
          (waAttempts[i].channel = "twilio" /\ waAttempts[i].ok) =>
              /\ Len(waAttempts) = 1
              /\ waPc = "done"
              /\ waResult
    /\ (\E i \in 1..Len(waAttempts) :
            waAttempts[i].channel \in {"callmebot1", "callmebot2"} /\ waAttempts[i].ok) =>
          /\ EmailAttempts = {}
          /\ waPc \in {"callmebot2", "done"}
          /\ waPc = "done" => waResult

\* C11 witness: the primary pair failed, the secondary one succeeded, and the
\* call returned True without an email attempt.
C11_Witness ==
    /\ waPc = "done"
    /\ waAttempts = << [channel |-> "callmebot1", ok |-> FALSE],
                       [channel |-> "callmebot2", ok |-> TRUE] >>
    /\ success_count = 1
    /\ waResult = TRUE

\* The place of a transport in the order of send_whatsapp_message.
Rank(channel) ==
    CASE channel = "twilio" -> 1
      [] channel = "callmebot1" -> 2
      [] channel = "callmebot2" -> 3
      [] channel = "email" -> 4

\* The attempts of this call that went to the transport `channel`.
AttemptsOf(channel) == {i \in 1..Len(waAttempts) : waAttempts[i].channel = channel}

\* The credentials of the transports, as the configuration holds them.
HasTwilio == config.TWILIO_ACCOUNT_SID # "" /\ config.TWILIO_AUTH_TOKEN # ""
HasPrimary == config.CALLMEBOT_API_KEY # "" /\ config.CALLMEBOT_PHONE # ""
HasSecondary == config.CALLMEBOT_API_KEY_2 # "" /\ config.CALLMEBOT_PHONE_2 # ""

\* C27: the transports are attempted in the order Twilio, CallMeBot pair 1,
\* CallMeBot pair 2, email fallback, each at most once per call, and a
\* transport without its credentials is not attempted.
C27_FixedOrderEachOnce ==
    /\ \A i \in 1..Len(waAttempts) : \A j \in 1..Len(waAttempts) :
          i < j => Rank(waAttempts[i].channel) < Rank(waAttempts[j].channel)
    /\ AttemptsOf("twilio") # {} => HasTwilio
    /\ AttemptsOf("callmebot1") # {} => HasPrimary
    /\ AttemptsOf("callmebot2") # {} => HasSecondary

\* C27 witness: the primary pair has no phone number and is skipped; the
\* secondary pair is attempted and fails, then the email fallback.
C27_Witness ==
    /\ waPc = "done"
    /\ config.CALLMEBOT_API_KEY # ""
    /\ config.CALLMEBOT_PHONE = ""
    /\ Len(waAttempts) = 2
    /\ waAttempts[1] = [channel |-> "callmebot2", ok |-> FALSE]
    /\ waAttempts[2].channel = "email"

\* The call went through the CallMeBot attempts and is past them.
TierTwoPassed ==
    /\ waPc \in {"email", "done"}
    /\ Len(waAttempts) > 0 \/ waPc = "email"
    /\ AttemptsOf("twilio") = {}

\* C28: when the CallMeBot tier is reached, every configured pair is
\* attempted exactly once, whatever the other pair gave, and success_count
\* and total_attempts are the number of successful attempts and the number of
\* configured pairs.
C28_EveryConfiguredPairOnce ==
    TierTwoPassed =>
        /\ Cardinality(AttemptsOf("callmebot1")) = (IF HasPrimary THEN 1 ELSE 0)
        /\ Cardinality(AttemptsOf("callmebot2")) = (IF HasSecondary THEN 1 ELSE 0)
        /\ success_count =
               Cardinality({i \in AttemptsOf("callmebot1") \cup AttemptsOf("callmebot2") :
                               waAttempts[i].ok})
        /\ total_attempts = (IF HasPrimary THEN 1 ELSE 0) + (IF HasSecondary THEN 1 ELSE 0)

\* C28 witness: the primary pair succeeded, the secondary pair was attempted
\* all the same and failed: 1 of 2.
C28_Witness ==
    /\ waPc = "done"
    /\ waAttempts = << [channel |-> "callmebot1", ok |-> TRUE],
                       [channel |-> "callmebot2", ok |-> FALSE] >>
    /\ success_count = 1
    /\ total_attempts = 2
    /\ waResult = TRUE

\* The last transport call raised.
LastRaised == Len(waAttempts) > 0 /\ waLast.kind \in {"error", "exception"}

\* The transport the call goes on to after an attempt of `channel` that did
\* not succeed: the next one that has its credentials, the email fallback
\* after the CallMeBot pairs when none of them succeeded.
NextAfterFailure(channel) ==
    IF channel = "twilio" /\ HasPrimary THEN "callmebot1"
    ELSE IF channel \in {"twilio", "callmebot1"} /\ HasSecondary THEN "callmebot2"
    ELSE IF success_count > 0 THEN "done"
    ELSE "email"

\* C29: an exception raised by one attempt is the failure of that attempt
\* only: the call goes on to the next configured transport in order, and it
\* returns a boolean.
C29_ExceptionFailsOneAttempt ==
    /\ (LastRaised /\ waAttempts[Len(waAttempts)].channel # "email") =>
          /\ ~waAttempts[Len(waAttempts)].ok
          /\ waPc = NextAfterFailure(waAttempts[Len(waAttempts)].channel)
    /\ waResult \in BOOLEAN

\* The last transport call was a CallMeBot request that got a response.
LastCallMeBotResponse ==
    /\ Len(waAttempts) > 0
    /\ waAttempts[Len(waAttempts)].channel \in {"callmebot1", "callmebot2"}
    /\ waLast.kind = "response"

PausedText(text) == Contains(text, "Account is") /\ Contains(text, "Paused")

QueueText(text) ==
    Contains(text, "Message queued") \/ Contains(text, "messages was added into the queue")

\* What follows a CallMeBot attempt in the cascade.
CascadeGoesOn ==
    /\ Cardinality(AttemptsOf(waAttempts[Len(waAttempts)].channel)) = 1
    /\ waPc = IF waAttempts[Len(waAttempts)].channel = "callmebot1" /\ HasSecondary
              THEN "callmebot2"
              ELSE IF success_count > 0 THEN "done" ELSE "email"

Dates == <<"2024-04-30", "2024-05-01", "2024-05-02">>

SecondsPerDay == 86400

\* Asia/Singapore is UTC+08:00 all year.
SingaporeOffset == 28800

IsDigit(c) == Len(c) = 1 /\ Find(Ten, c) >= 0

\* The number two decimal digits at position i of s write, -1 if they are none.
TwoDigits(s, i) ==
    IF IsDigit(Ch(s, i)) /\ IsDigit(Ch(s, i + 1))
    THEN Find(Ten, Ch(s, i)) * 10 + Find(Ten, Ch(s, i + 1))
    ELSE -1

\* The API's reading of "YYYY-MM-DDTHH:MM:SS" followed by zone ("" or "Z"):
\* seconds from the start of Dates[1] on that clock, ok = FALSE when the
\* text is no such date-time (the request is rejected).
ParseDateTime(s, zone) ==
    LET date == PySlice(s, 0, 10)
        hh   == TwoDigits(s, 12)
        mm   == TwoDigits(s, 15)
        ss   == TwoDigits(s, 18)
    IN  IF /\ Len(s) = 19 + Len(zone)
           /\ InSeq(date, Dates)
           /\ Ch(s, 11) = "T" /\ Ch(s, 14) = ":" /\ Ch(s, 17) = ":"
           /\ PySlice(s, 19, Len(s)) = zone
           /\ hh >= 0 /\ hh < 24 /\ mm >= 0 /\ mm < 60 /\ ss >= 0 /\ ss < 60
        THEN [ok |-> TRUE,
              secs |-> (CHOOSE i \in 1..Len(Dates) : Dates[i] = date) * SecondsPerDay
                       - SecondsPerDay + hh * 3600 + mm * 60 + ss]
        ELSE [ok |-> FALSE, secs |-> 0]

\* events().list(timeMin, timeMax, singleEvents, orderBy startTime): the
\* events that end after timeMin and start before timeMax.
EventsList(events, time_min, time_max) ==
    LET lo == ParseDateTime(time_min, "Z")
        hi == ParseDateTime(time_max, "Z")
    IN  IF ~lo.ok \/ ~hi.ok THEN [ok |-> FALSE, items |-> <<>>]
        ELSE [ok |-> TRUE,
              items |-> SelectSeq(events, LAMBDA e : e.end > lo.secs /\ e.start < hi.secs)]

\* events().insert(body): the event the calendar stores, ok = FALSE when the
\* API rejects the body (a dateTime it cannot read, or an end before the start).
EventsInsert(body) ==
    LET st == ParseDateTime(body.start.dateTime, "")
        en == ParseDateTime(body.end.dateTime, "")
    IN  IF st.ok /\ en.ok /\ en.secs >= st.secs
        THEN [ok |-> TRUE,
              event |-> [summary |-> body.summary,
                         start |-> st.secs - SingaporeOffset,
                         end |-> en.secs - SingaporeOffset]]
        ELSE [ok |-> FALSE, event |-> [summary |-> "", start |-> 0, end |-> 0]]

(***************************************************************************)
(* CalendarService._event_exists and _create_single_event.  A request is a *)
(* dict; its title and dates are str when present, its times are str or    *)
(* None (JNull) when present.                                              *)
(***************************************************************************)

\* event_details.get(key, default) for a str field
GetStr(d, k, default) == IF k \in DOMAIN d THEN d[k].v ELSE default

\* Faulty variant: containment is tested for titles of every length.
EventExists_AnyLength(events, event_title, event_date, listing) ==
    IF event_date = "" THEN FALSE
    ELSE LET events_result == EventsList(events, event_date \o "T00:00:00Z",
                                         event_date \o "T23:59:59Z")
             search_title == Lower(Strip(event_title))
         IN  IF listing = "error" \/ ~events_result.ok THEN FALSE
             ELSE \E i \in 1..Len(events_result.items) :
                    LET existing_title == Lower(Strip(events_result.items[i].summary))
                    IN  \/ existing_title = search_title
                        \/ Contains(existing_title, search_title)
                        \/ Contains(search_title, existing_title)

\* Faulty variant: a long existing title also allows the containment test.
EventExists_EitherLength(events, event_title, event_date, listing) ==
    IF event_date = "" THEN FALSE
    ELSE LET events_result == EventsList(events, event_date \o "T00:00:00Z",
                                         event_date \o "T23:59:59Z")
             search_title == Lower(Strip(event_title))
         IN  IF listing = "error" \/ ~events_result.ok THEN FALSE
             ELSE \E i \in 1..Len(events_result.items) :
                    LET existing_title == Lower(Strip(events_result.items[i].summary))
                    IN  \/ existing_title = search_title
                        \/ /\ Len(search_title) > 10 \/ Len(existing_title) > 10
                           /\ \/ Contains(existing_title, search_title)
                              \/ Contains(search_title, existing_title)

\* _event_exists(event_title, event_date), with listing = "error" when the
\* list request fails on the network.
EventExists(events, event_title, event_date, listing) ==
    IF event_date = "" THEN FALSE
    ELSE LET events_result == EventsList(events, event_date \o "T00:00:00Z",
                                         event_date \o "T23:59:59Z")
             search_title == Lower(Strip(event_title))
         IN  IF listing = "error" \/ ~events_result.ok THEN FALSE
             ELSE \E i \in 1..Len(events_result.items) :
                    LET existing_title == Lower(Strip(events_result.items[i].summary))
                    IN  \/ existing_title = search_title
                        \/ /\ Len(search_title) > 10
                           /\ \/ Contains(existing_title, search_title)
                              \/ Contains(search_title, existing_title)

\* The number of parts of s.split(':')
SplitColonParts(s) == Cardinality({i \in 1..Len(s) : Ch(s, i) = ":"}) + 1

InvalidTimes == {"Unknown", "", "unknown", "N/A", "NA"}

\* Faulty variant: the count of the parts is not looked at.
NormalizeTime_ListOnly(d, k, default) ==
    LET start_time == IF k \in DOMAIN d THEN d[k] ELSE JStr(default)
    IN  IF ~Truthy(start_time) \/ start_time.v \in InvalidTimes THEN default
        ELSE start_time.v

\* Lines 126-139 for one of the two time fields.
NormalizeTime(d, k, default) ==
    LET start_time == IF k \in DOMAIN d THEN d[k] ELSE JStr(default)
        cleaned == IF ~Truthy(start_time) \/ start_time.v \in InvalidTimes
                   THEN default ELSE start_time.v
    IN  IF SplitColonParts(cleaned) # 2 THEN default ELSE cleaned

\* The body _create_single_event submits for the request d.
EventBody(d) ==
    [summary |-> GetStr(d, "title", "Event from Email"),
     start |-> [dateTime |-> GetStr(d, "startDate", "") \o "T"
                             \o NormalizeTime(d, "startTime", "07:00") \o ":00",
                timeZone |-> "Asia/Singapore"],
     end |-> [dateTime |-> GetStr(d, "endDate", GetStr(d, "startDate", "")) \o "T"
                           \o NormalizeTime(d, "endTime", "08:00") \o ":00",
              timeZone |-> "Asia/Singapore"]]

\* Faulty variant: a request whose list request failed is taken as present.
CreateSingleEvent_SkipOnListError(events, d, listing, insertion) ==
    LET matched == listing = "error"
                   \/ EventExists(events, GetStr(d, "title", "Event from Email"),
                                  GetStr(d, "startDate", ""), listing)
        inserted == EventsInsert(EventBody(d))
        created == insertion = "ok" /\ inserted.ok
    IN  IF matched
        THEN [return |-> TRUE, matched |-> FALSE, submitted |-> <<>>, events |-> events]
        ELSE [return |-> created, matched |-> FALSE, submitted |-> <<EventBody(d)>>,
              events |-> IF created THEN Append(events, inserted.event) ELSE events]

\* _create_single_event(d) on the calendar `events`: what it returns, whether
\* the dedup check matched, the bodies it submitted and the calendar after it.
\* listing and insertion are "ok" or "error" (the request fails on the network).
CreateSingleEvent(events, d, listing, insertion) ==
    LET matched == EventExists(events, GetStr(d, "title", "Event from Email"),
                               GetStr(d, "startDate", ""), listing)
        inserted == EventsInsert(EventBody(d))
        created == insertion = "ok" /\ inserted.ok
    IN  IF matched
        THEN [return |-> TRUE, matched |-> TRUE, submitted |-> <<>>, events |-> events]
        ELSE [return |-> created, matched |-> FALSE, submitted |-> <<EventBody(d)>>,
              events |-> IF created THEN Append(events, inserted.event) ELSE events]

(***************************************************************************)
(* _create_single_event called, and called again, for one request          *)
(* (SpecCal).                                                              *)
(***************************************************************************)

\* The calendar holds at most MaxEvents events.
MaxEvents == 3

RequestTitles ==
    { EmptyDict,
      [title |-> JStr("Sports Day")],
      [title |-> JStr("Sports Day Celebration")],
      [title |-> JStr("  SPORTS day celebration ")] }

RequestDates ==
    { [startDate |-> JStr("2024-05-01")],
      [startDate |-> JStr("2024-05-01"), endDate |-> JStr("2024-05-02")],
      [startDate |-> JStr("")] }

RequestTimes ==
    { EmptyDict,
      [startTime |-> JStr("Unknown"), endTime |-> JStr("")],
      [startTime |-> JStr("UNKNOWN"), endTime |-> JStr("n/a")],
      [startTime |-> JNull, endTime |-> JStr("N/A")],
      [startTime |-> JStr("unKnown")],
      [startTime |-> JStr("09:30"), endTime |-> JStr("10:30")],
      [startTime |-> JStr("07:30"), endTime |-> JStr("08:30")],
      [startTime |-> JStr("06:00"), endTime |-> JStr("07:00")],
      [startTime |-> JStr("7pm"), endTime |-> JStr("10:00:00")],
      [startTime |-> JStr("25:99"), endTime |-> JStr("08:00")],
      [startTime |-> JStr("9:30"), endTime |-> JStr("5pm:")] }

EventRequests == {t @@ d @@ c : t \in RequestTitles, d \in RequestDates, c \in RequestTimes}

\* The event a calendar holds already: on 2024-05-01, 09:00 to 10:00 in Singapore.
ExistingEvent(title) ==
    EventsInsert(EventBody([title |-> JStr(title), startDate |-> JStr("2024-05-01"),
                            startTime |-> JStr("09:00"), endTime |-> JStr("10:00")])).event

InitialCalendars ==
    { <<>>, <<ExistingEvent("Sports Day Celebration")>>, <<ExistingEvent("Sports Day")>>,
      <<ExistingEvent("")>> }

NetworkOutcomes == {"ok", "error"}

\* One call of _create_single_event(event_details, email_data).
CreateSingleEventCall(listing, insertion) ==
    LET r == CreateSingleEvent(calendar_events, event_details, listing, insertion) IN
    /\ Len(calendar_events) < MaxEvents
    /\ calPc' = "done"
    /\ calListing' = listing
    /\ calMatched' = r.matched
    /\ calSubmitted' = r.submitted
    /\ calReturn' = r.return
    /\ calendar_events' = r.events
    /\ UNCHANGED <<envVars, aiVars, agVars, waVars, event_details, batchVars, restVars>>

InitCal ==
    /\ config = BaseConfig
    /\ email_data = NoEmail
    /\ AIIdle
    /\ AgentIdle
    /\ WAIdle
    /\ calendar_events \in InitialCalendars
    /\ event_details \in EventRequests
    /\ calPc = "idle"
    /\ calListing = "ok"
    /\ calMatched = FALSE
    /\ calSubmitted = <<>>
    /\ calReturn = FALSE
    /\ calendar_service = "service"
    /\ events_list = <<>>
    /\ batchOutcomes = <<>>
    /\ batch_report = EmptyDict
    /\ RestIdle

NextCal == \E listing \in NetworkOutcomes, insertion \in NetworkOutcomes :
               CreateSingleEventCall(listing, insertion)

SpecCal == InitCal /\ [][NextCal]_vars

(***************************************************************************)
(* Properties of _create_single_event (SpecCal).                           *)
(***************************************************************************)

\* The call about to be made is for the request titled `title` on 2024-05-01,
\* the calendar holds just the event titled `existing` on that day, and the
\* list request of the call works.
DedupCase(existing, title) ==
    /\ calendar_events = <<ExistingEvent(existing)>>
    /\ "title" \in DOMAIN event_details
    /\ event_details.title = JStr(title)
    /\ event_details.startDate = JStr("2024-05-01")
    /\ calListing' = "ok"

\* C12 as stated: with "Sports Day Celebration" on 2024-05-01 in the calendar,
\* a request titled "Sports Day" on that date is a match: the call returns
\* True and submits no creation.
C12_SportsDayIsMatch ==
    [][DedupCase("Sports Day Celebration", "Sports Day") =>
           (calMatched' /\ calReturn' /\ calSubmitted' = <<>>)]_vars

\* C12 amended: "Sports Day" has 10 characters, not more than 10, so against
\* "Sports Day Celebration" it is no match and a creation is submitted, whose
\* outcome the call returns; a request titled "Sports Day Celebration" (more
\* than 10 characters) against an existing "Sports Day" is a match: the call
\* returns True and submits nothing.
C12_ShortTitleNeedsEquality ==
    [][/\ DedupCase("Sports Day Celebration", "Sports Day") =>
            /\ ~calMatched'
            /\ Len(calSubmitted') = 1
            /\ calSubmitted'[1].summary = "Sports Day"
            /\ calReturn' = (Len(calendar_events') = 2)
       /\ DedupCase("Sports Day", "Sports Day Celebration") =>
            /\ calMatched'
            /\ calReturn'
            /\ calSubmitted' = <<>>
            /\ calendar_events' = calendar_events]_vars

\* C12 witness: the request "Sports Day" was created next to the existing
\* "Sports Day Celebration".
C12_Witness ==
    /\ calPc = "done"
    /\ calListing = "ok"
    /\ ~calMatched
    /\ calReturn
    /\ Len(calendar_events) = 2
    /\ calendar_events[1] = ExistingEvent("Sports Day Celebration")
    /\ calendar_events[2].summary = "Sports Day"
    /\ event_details.title = JStr("Sports Day")

\* C13: after a call has created the event of a request, the next call for
\* the same request, with the list request working, finds it: it matches,
\* submits no creation, returns True and leaves the calendar as it is.
C13_RetryFindsCreatedEvent ==
    [][(/\ calPc = "done"
        /\ ~calMatched
        /\ calReturn
        /\ calListing' = "ok") =>
           (/\ calMatched'
            /\ calSubmitted' = <<>>
            /\ calReturn'
            /\ calendar_events' = calendar_events)]_vars

\* The time field k of the request is absent, empty, or "Unknown" / "N/A" in
\* some letter case.
SentinelTime(d, k) ==
    \/ k \notin DOMAIN d
    \/ d[k].t = "str" /\ Lower(d[k].v) \in {"", "unknown", "n/a"}

\* C14: the event submitted for a request whose startTime (endTime) is
\* absent, empty or a sentinel in any letter case starts at 07:00 (ends at
\* 08:00) of its start (end) date.
C14_SentinelTimesGetDefaults ==
    \A i \in 1..Len(calSubmitted) :
        /\ SentinelTime(event_details, "startTime") =>
              calSubmitted[i].start.dateTime =
                  GetStr(event_details, "startDate", "") \o "T07:00:00"
        /\ SentinelTime(event_details, "endTime") =>
              calSubmitted[i].end.dateTime =
                  GetStr(event_details, "endDate", GetStr(event_details, "startDate", ""))
                  \o "T08:00:00"

\* C14 witness: startTime "Unknown" and endTime "" were submitted as 07:00
\* and 08:00, and the event was created.
C14_Witness ==
    /\ calPc = "done"
    /\ "startTime" \in DOMAIN event_details
    /\ event_details.startTime = JStr("Unknown")
    /\ event_details.endTime = JStr("")
    /\ Len(calSubmitted) = 1
    /\ calSubmitted[1].start.dateTime = "2024-05-01T07:00:00"
    /\ calSubmitted[1].end.dateTime = "2024-05-01T08:00:00"
    /\ calReturn

\* The title and the start date of the request.
RequestTitle == GetStr(event_details, "title", "Event from Email")
RequestDate == GetStr(event_details, "startDate", "")

\* The events the list request for the day of the request gives.
ListedEvents ==
    EventsList(calendar_events, RequestDate \o "T00:00:00Z",
               RequestDate \o "T23:59:59Z").items

\* The stated rule for one existing title and the requested title.
TitlesMatch(existing, requested) ==
    \/ Lower(Strip(existing)) = Lower(Strip(requested))
    \/ /\ Len(Strip(requested)) > 10
       /\ \/ Contains(Lower(Strip(existing)), Lower(Strip(requested)))
          \/ Contains(Lower(Strip(requested)), Lower(Strip(existing)))

\* C31: a call whose list request works, for a request with a start date,
\* reports a match iff some event the list request gives for that date has a
\* title that, lower-cased and trimmed, equals the requested title
\* lower-cased and trimmed, or the trimmed requested title has more than 10
\* characters and one of the two contains the other; the length of the
\* existing title plays no part.
C31_MatchRule ==
    [][(calPc' = "done" /\ calListing' = "ok" /\ RequestDate # "") =>
           (calMatched' <=>
               \E i \in 1..Len(ListedEvents) :
                   TitlesMatch(ListedEvents[i].summary, RequestTitle))]_vars

\* C31 witness: "Sports Day Celebration" matched the existing "Sports Day",
\* whose title has just 10 characters.
C31_Witness ==
    /\ calPc = "done"
    /\ calListing = "ok"
    /\ calMatched
    /\ calendar_events = <<ExistingEvent("Sports Day")>>
    /\ RequestTitle = "Sports Day Celebration"

\* s has the shape HH:MM: two digits, a colon, two digits.
IsHHMM(s) == Len(s) = 5 /\ TwoDigits(s, 1) >= 0 /\ Ch(s, 3) = ":" /\ TwoDigits(s, 4) >= 0

\* The time field k of the request is present and is a text of the shape HH:MM.
WellFormedTime(d, k) == k \in DOMAIN d /\ d[k].t = "str" /\ IsHHMM(d[k].v)

\* C32: the event submitted for a request whose startTime (endTime) is not
\* of the shape HH:MM starts at 07:00 (ends at 08:00); the start and the end
\* of every submitted event are a date, "T", a time of the shape HH:MM and
\* ":00"; without an endDate the end is on the start date.
C32_MalformedTimesGetDefaults ==
    \A i \in 1..Len(calSubmitted) :
        /\ ~WellFormedTime(event_details, "startTime") =>
              calSubmitted[i].start.dateTime = RequestDate \o "T07:00:00"
        /\ ~WellFormedTime(event_details, "endTime") =>
              PySlice(calSubmitted[i].end.dateTime,
                      Len(calSubmitted[i].end.dateTime) - 9,
                      Len(calSubmitted[i].end.dateTime)) = "T08:00:00"
        /\ IsHHMM(PySlice(calSubmitted[i].start.dateTime, Len(RequestDate) + 1,
                          Len(RequestDate) + 6))
        /\ "endDate" \notin DOMAIN event_details =>
              PySlice(calSubmitted[i].end.dateTime, 0, Len(RequestDate)) = RequestDate

\* C33: a call whose list request fails reports no match and submits the
\* creation of the request; it returns True only when that creation put
\* the event into the calendar.
C33_DedupIsBestEffort ==
    [][(calPc' = "done" /\ calListing' = "error") =>
           /\ ~calMatched'
           /\ calSubmitted' = <<EventBody(event_details)>>
           /\ calReturn' <=> Len(calendar_events') = Len(calendar_events) + 1]_vars

\* C33 witness: the list request failed and "Sports Day" was created next to
\* the existing "Sports Day".
C33_Witness ==
    /\ calPc = "done"
    /\ calListing = "error"
    /\ calReturn
    /\ RequestTitle = "Sports Day"
    /\ Len(calendar_events) = 2
    /\ calendar_events[1] = ExistingEvent("Sports Day")
    /\ calendar_events[2].summary = "Sports Day"

\* C36: an existing event with an empty title is no match for a request
\* with a non-empty title, whatever the length of that title.
C36_EmptyTitleNeverMatches ==
    [][(/\ calPc' = "done"
        /\ calendar_events = <<ExistingEvent("")>>
        /\ Strip(RequestTitle) # "") => ~calMatched']_vars

(***************************************************************************)
(* CalendarAgent.create_calendar_event and create_multiple_events          *)
(* (SpecBatch).  The requests of a batch are dicts.                        *)
(***************************************************************************)

\* A batch has at most MaxBatch requests.
MaxBatch == 3

\* CalendarService.create_calendar_event(d, email_data) for a dict d: False
\* without a calendar service, else _create_single_event.
ServiceCreateCalendarEvent(events, service, d, listing, insertion) ==
    IF service = "None"
    THEN [return |-> FALSE, matched |-> FALSE, submitted |-> <<>>, events |-> events]
    ELSE CreateSingleEvent(events, d, listing, insertion)

\* What became of a request: it matched an existing event, it was created,
\* or neither.
OutcomeOf(r) == IF r.matched THEN "matched" ELSE IF r.return THEN "created" ELSE "failed"

\* The dict create_calendar_event returns when the service call gave r, with
\* the calendar after it and what became of the request.
AgentCalendarResult(d, r) ==
    [result |-> [success |-> JBool(TRUE),
                 message |-> JStr("Calendar event created successfully"),
                 event_details |-> JObj(d),
                 calendar_result |-> JBool(r.return)],
     events |-> r.events,
     outcome |-> OutcomeOf(r)]

\* CalendarAgent.create_calendar_event(d, email_data).
AgentCreateCalendarEvent(events, service, d, listing, insertion) ==
    AgentCalendarResult(d, ServiceCreateCalendarEvent(events, service, d, listing, insertion))

\* The dict create_multiple_events returns after its loop.
BatchReport(list, successful, results) ==
    [success |-> JBool(successful > 0), total_events |-> Len(list),
     successful |-> successful, failed |-> Len(list) - successful, results |-> results]

\* The loop of create_multiple_events from request i on; outs[i] is the
\* outcome of the list and the insert request for request i.
RECURSIVE CreateMultipleEventsFrom(_, _, _, _, _, _, _, _)
\* The rest of the loop after request i, whose create_calendar_event gave a.
CreateMultipleEventsAfter(a, service, list, outs, i, successful, results, outcomes) ==
    CreateMultipleEventsFrom(
        a.events, service, list, outs, i + 1,
        IF Truthy(a.result.success) THEN successful + 1 ELSE successful,
        Append(results, [index |-> i - 1, success |-> a.result.success,
                         title |-> GetStr(list[i], "title", "Untitled")]),
        Append(outcomes, a.outcome))

CreateMultipleEventsFrom(events, service, list, outs, i, successful, results, outcomes) ==
    IF i > Len(list)
    THEN [report |-> BatchReport(list, successful, results),
          events |-> events, outcomes |-> outcomes]
    ELSE CreateMultipleEventsAfter(
             AgentCreateCalendarEvent(events, service, list[i],
                                      outs[i].listing, outs[i].insertion),
             service, list, outs, i, successful, results, outcomes)

CreateMultipleEvents(events, service, list, outs) ==
    CreateMultipleEventsFrom(events, service, list, outs, 1, 0, <<>>, <<>>)

\* The bodies the loop of create_multiple_events submits from request i on.
RECURSIVE BatchSubmittedFrom(_, _, _, _, _)
\* Those of request i, whose service call gave r, and of the requests after it.
BatchSubmittedAfter(r, service, list, outs, i) ==
    r.submitted \o BatchSubmittedFrom(r.events, service, list, outs, i + 1)

BatchSubmittedFrom(events, service, list, outs, i) ==
    IF i > Len(list) THEN <<>>
    ELSE BatchSubmittedAfter(
             ServiceCreateCalendarEvent(events, service, list[i],
                                        outs[i].listing, outs[i].insertion),
             service, list, outs, i)

\* The loop of CalendarService.create_calendar_event for a list, from request
\* i on: _create_single_event for each request; n is success_count.
RECURSIVE ServiceCreateEventsFrom(_, _, _, _, _, _, _)
\* The rest of the loop after request i, whose _create_single_event gave r.
ServiceCreateEventsAfter(r, list, outs, i, n, outcomes, submitted) ==
    ServiceCreateEventsFrom(r.events, list, outs, i + 1,
                            IF r.return THEN n + 1 ELSE n,
                            Append(outcomes, OutcomeOf(r)), submitted \o r.submitted)

\* Faulty variant: the loop ends at the first request that fails.
ServiceCreateEventsFrom_StopAtFailure(events, list, outs, i, n, outcomes, submitted) ==
    IF i > Len(list) \/ (outcomes # <<>> /\ outcomes[Len(outcomes)] = "failed")
    THEN [return |-> n > 0, events |-> events, outcomes |-> outcomes,
          submitted |-> submitted]
    ELSE ServiceCreateEventsAfter(
             CreateSingleEvent(events, list[i], outs[i].listing, outs[i].insertion),
             list, outs, i, n, outcomes, submitted)

ServiceCreateEventsFrom(events, list, outs, i, n, outcomes, submitted) ==
    IF i > Len(list)
    THEN [return |-> n > 0, events |-> events, outcomes |-> outcomes,
          submitted |-> submitted]
    ELSE ServiceCreateEventsAfter(
             CreateSingleEvent(events, list[i], outs[i].listing, outs[i].insertion),
             list, outs, i, n, outcomes, submitted)

\* CalendarService.create_calendar_event(list, email_data) for a list of
\* dicts: False without a calendar service, else the loop.
ServiceCreateCalendarEvents(events, service, list, outs) ==
    IF service = "None"
    THEN [return |-> FALSE, events |-> events, outcomes |-> <<>>, submitted |-> <<>>]
    ELSE ServiceCreateEventsFrom(events, list, outs, 1, 0, <<>>, <<>>)

BatchRequests ==
    { [title |-> JStr("Sports Day Celebration"), startDate |-> JStr("2024-05-01"),
       startTime |-> JStr("09:30"), endTime |-> JStr("10:30")],
      [title |-> JStr("Concert"), startDate |-> JStr("2024-05-02"),
       startTime |-> JStr("18:00"), endTime |-> JStr("Unknown")] }

Batches == UNION {[1..n -> BatchRequests] : n \in 0..MaxBatch}

\* Per request: both requests work, the insert fails, or the listing fails.
ItemOutcomes ==
    { [listing |-> "ok", insertion |-> "ok"],
      [listing |-> "ok", insertion |-> "error"],
      [listing |-> "error", insertion |-> "ok"] }

\* One call of create_multiple_events(list, email_data).
CreateMultipleEventsCall(list, outs) ==
    /\ calPc = "idle"
    /\ \E r \in {CreateMultipleEvents(calendar_events, calendar_service, list, outs)} :
        /\ calPc' = "done"
        /\ events_list' = list
        /\ batch_report' = r.report
        /\ batchOutcomes' = r.outcomes
        /\ calendar_events' = r.events
        /\ calSubmitted' = BatchSubmittedFrom(calendar_events, calendar_service, list,
                                              outs, 1)
        /\ UNCHANGED <<envVars, aiVars, agVars, waVars, event_details, calListing,
                       calMatched, calReturn, calendar_service, restVars>>

\* One call of CalendarService.create_calendar_event(list, email_data).
ServiceCreateCalendarEventsCall(list, outs) ==
    /\ calPc = "idle"
    /\ \E r \in {ServiceCreateCalendarEvents(calendar_events, calendar_service, list,
                                             outs)} :
        /\ calPc' = "returned"
        /\ events_list' = list
        /\ batchOutcomes' = r.outcomes
        /\ calendar_events' = r.events
        /\ calSubmitted' = r.submitted
        /\ calReturn' = r.return
        /\ UNCHANGED <<envVars, aiVars, agVars, waVars, event_details, calListing,
                       calMatched, batch_report, calendar_service, restVars>>

InitBatch ==
    /\ config = BaseConfig
    /\ email_data = NoEmail
    /\ AIIdle
    /\ AgentIdle
    /\ WAIdle
    /\ calendar_events \in InitialCalendars
    /\ event_details = EmptyDict
    /\ calPc = "idle"
    /\ calListing = "ok"
    /\ calMatched = FALSE
    /\ calSubmitted = <<>>
    /\ calReturn = FALSE
    /\ calendar_service \in {"service", "None"}
    /\ events_list = <<>>
    /\ batchOutcomes = <<>>
    /\ batch_report = EmptyDict
    /\ RestIdle

NextBatch ==
    \E list \in Batches : \E outs \in [1..Len(list) -> ItemOutcomes] :
        \/ CreateMultipleEventsCall(list, outs)
        \/ ServiceCreateCalendarEventsCall(list, outs)

SpecBatch == InitBatch /\ [][NextBatch]_vars

(***************************************************************************)
(* Properties of create_multiple_events (SpecBatch).                       *)
(***************************************************************************)

CountOutcomes(kinds) == Cardinality({i \in 1..Len(batchOutcomes) : batchOutcomes[i] \in kinds})

\* C15: in the report of a batch, successful is the number of requests that
\* matched an existing event or were created, failed the number of those
\* that did neither, and success holds iff successful > 0.
C15_BatchAccounting ==
    calPc = "done" =>
        /\ batch_report.successful = CountOutcomes({"matched", "created"})
        /\ batch_report.failed = CountOutcomes({"failed"})
        /\ batch_report.success = JBool(batch_report.successful > 0)

\* The bodies of the requests of the batch that did not match, in list order.
RECURSIVE UnmatchedBodies(_)
UnmatchedBodies(i) ==
    IF i > Len(batchOutcomes) THEN <<>>
    ELSE (IF batchOutcomes[i] = "matched" THEN <<>> ELSE <<EventBody(events_list[i])>>)
         \o UnmatchedBodies(i + 1)

\* C34: with a calendar service, a call of create_multiple_events and a
\* call of CalendarService.create_calendar_event for a list give every
\* request of the list an outcome, and submit, in list order, the creation
\* of every request that did not match, those after a failed request
\* included.
C34_SiblingIsolation ==
    (calPc \in {"done", "returned"} /\ calendar_service = "service") =>
        /\ Len(batchOutcomes) = Len(events_list)
        /\ calSubmitted = UnmatchedBodies(1)

\* C34 witness: in a list of three requests handed to the service the first
\* creation failed and the two after it were made.
C34_Witness ==
    /\ calPc = "returned"
    /\ batchOutcomes = <<"failed", "created", "created">>
    /\ Len(calSubmitted) = 3
    /\ calReturn

(***************************************************************************)
(* CoordinatorAgent.process_single_email, steps 2 to 4, with the agents    *)
(* it calls.                                                               *)
(***************************************************************************)

\* The configuration of the coordinator's runs: an OpenAI model with its key.
RunConfig == [BaseConfig EXCEPT !.OPENAI_API_KEY = "secret"]

\* Provider outcomes of an item: an event as a dict, events as a list, no
\* event, an event without usable details, a hard error, no content.
ItemAIOutcomes ==
    { ContentOutcome("{\"gist\": \"Sports day on Friday\", \"hasEvent\": true, \"eventDetails\": {\"title\": \"Sports Day\", \"startDate\": \"2024-05-01\"}, \"priority\": \"high\", \"actionItems\": [\"Pack sports kit\"], \"category\": \"sports\"}", FALSE),
      ContentOutcome("{\"gist\": \"Two events\", \"hasEvent\": true, \"eventDetails\": [{\"title\": \"A\"}, {\"title\": \"B\"}]}", FALSE),
      ContentOutcome("Here is the analysis: {\"gist\": \"Fees are due\", \"hasEvent\": false, \"eventDetails\": {}} Hope it helps.", FALSE),
      ContentOutcome("{\"hasEvent\": true, \"eventDetails\": {}}", FALSE),
      ErrorOutcome("Rate limit reached for requests"),
      ContentOutcome("", TRUE) }

\* analyze_email for the items and the provider outcomes of the coordinator's
\* runs, as a table.
ItemAnalyses == [e \in Emails |-> [o \in ItemAIOutcomes |-> AnalyzeEmail(e, o)]]

\* NotificationAgent.create_email_summary_notification: the dict it returns
\* when send_whatsapp_message returned `sent` (the timestamp and the
\* formatted message are left out).
NotificationResult(sent) ==
    [success |-> JBool(sent),
     message |-> JStr(IF sent THEN "WhatsApp notification sent successfully"
                      ELSE "Failed to send WhatsApp notification")]

\* What process_ai_events hands on from create_multiple_events (r) and from
\* create_calendar_event (a).
FromBatch(r) == [result |-> r.report, events |-> r.events, outcomes |-> r.outcomes]
FromSingle(a) == [result |-> a.result, events |-> a.events, outcomes |-> <<a.outcome>>]

\* The dicts of a list of JSON objects.
DictsOf(items) == [i \in 1..Len(items) |-> items[i].v]

\* CalendarAgent.process_ai_events(analysis, email_data); c is the outcome of
\* the calendar requests made for it.  The eventDetails of the analysis are
\* a dict or a list of dicts.
ProcessAIEvents(events, service, analysis, c) ==
    IF ~Truthy(Get(analysis, "hasEvent"))
    THEN [result |-> [success |-> JBool(TRUE), message |-> JStr("No events to process"),
                      events_created |-> 0],
          events |-> events, outcomes |-> <<>>]
    ELSE IF Get(analysis, "eventDetails").t = "list"
    THEN FromBatch(CreateMultipleEvents(
                       events, service, DictsOf(Get(analysis, "eventDetails").v),
                       [i \in 1..Len(Get(analysis, "eventDetails").v) |-> c]))
    ELSE IF Get(analysis, "eventDetails").t = "obj"
            /\ Get(analysis, "eventDetails").v # EmptyDict
    THEN FromSingle(AgentCreateCalendarEvent(events, service,
                                             Get(analysis, "eventDetails").v,
                                             c.listing, c.insertion))
    ELSE [result |-> [success |-> JBool(FALSE),
                      error |-> JStr("Invalid event details format"),
                      events_created |-> 0],
          events |-> events, outcomes |-> <<>>]

\* calendar_result.get("events_created", 0)
EventsCreatedOf(cr) ==
    IF "events_created" \in DOMAIN cr THEN cr.events_created
    ELSE 0

\* Faulty variant: the item succeeds when its notification was delivered.
CoordinatorSuccess_NeedsNotification(e, analysis, notification, calendar) ==
    [success |-> (IF notification = JNull THEN JBool(FALSE) ELSE notification.success),
     email_subject |-> JStr(e.subject), email_from |-> JStr(e.from),
     analysis_result |-> analysis, notification_result |-> notification,
     calendar_result |-> calendar]

\* The dict process_single_email returns at step 4; notification and
\* calendar are the dicts of steps 2 and 3, or JNull for None.
CoordinatorSuccess(e, analysis, notification, calendar) ==
    [success |-> JBool(TRUE),
     email_subject |-> JStr(e.subject), email_from |-> JStr(e.from),
     analysis_result |-> analysis, notification_result |-> notification,
     calendar_result |-> calendar,
     workflow_steps |->
         [ai_analysis |-> TRUE,
          notification_sent |-> notification # JNull /\ Truthy(notification.success),
          calendar_event_created |-> calendar # JNull /\ Truthy(calendar.success)]]

\* Step 2: the notification dict, None when no notification is requested.
NotificationStep(send_notification, sent) ==
    IF send_notification THEN NotificationResult(sent) ELSE JNull

\* Faulty variant: every notification that was attempted is counted.
StatsAfterNotification_Attempted(st, notification) ==
    IF notification # JNull THEN [st EXCEPT !.notifications_sent = @ + 1] ELSE st

\* The stats after step 2.
StatsAfterNotification(st, notification) ==
    IF notification # JNull /\ Truthy(notification.success)
    THEN [st EXCEPT !.notifications_sent = @ + 1] ELSE st

\* The stats after step 3, cal being what process_ai_events gave.
StatsAfterCalendar(st, cal) ==
    IF Truthy(cal.result.success)
    THEN [st EXCEPT !.events_created = @ + EventsCreatedOf(cal.result)] ELSE st

\* Steps 2 to 4 when step 3 calls the calendar agent, which gave cal.
FinishWithCalendar(e, analysis, notification, st, cal) ==
    [result |-> CoordinatorSuccess(e, analysis, notification, cal.result),
     analysis |-> analysis,
     stats |-> StatsAfterCalendar(StatsAfterNotification(st, notification), cal),
     events |-> cal.events, ran |-> TRUE, outcomes |-> cal.outcomes]

\* Steps 2 to 4 when step 3 is skipped.
FinishWithoutCalendar(e, analysis, notification, st, events) ==
    [result |-> CoordinatorSuccess(e, analysis, notification, JNull),
     analysis |-> analysis, stats |-> StatsAfterNotification(st, notification),
     events |-> events, ran |-> FALSE, outcomes |-> <<>>]

\* process_single_email after step 1 gave `analysis`.
AfterAnalysis(e, analysis, send_notification, create_event, sent, c, st, events, service) ==
    IF ~Truthy(Get(analysis, "success"))
    THEN [result |-> CoordinatorFailure(e, analysis), analysis |-> analysis,
          stats |-> st, events |-> events, ran |-> FALSE, outcomes |-> <<>>]
    ELSE IF create_event /\ Truthy(Get(analysis, "hasEvent"))
    THEN FinishWithCalendar(e, analysis, NotificationStep(send_notification, sent), st,
                            ProcessAIEvents(events, service, analysis, c))
    ELSE FinishWithoutCalendar(e, analysis, NotificationStep(send_notification, sent),
                               st, events)

\* process_single_email(e, send_notification, create_event) with the stats
\* `st` and the calendar `events`: o is the outcome of the AI call, sent what
\* send_whatsapp_message returns, c the outcome of the calendar requests.
\* It gives the dict returned, the analysis, the stats and the calendar
\* after it, and what became of each event request.
ProcessSingleEmail(e, send_notification, create_event, o, sent, c, st, events, service) ==
    AfterAnalysis(e, ItemAnalyses[e][o], send_notification, create_event, sent, c, st,
                  events, service)

(***************************************************************************)
(* CoordinatorAgent.execute(action = "process_single_email") on a          *)
(* coordinator that keeps its stats from one call to the next (SpecItem).  *)
(***************************************************************************)

MaxItems == 2

\* execute({"action": "process_single_email", "email_data": e,
\* "send_notification": sn, "create_event": ce}): the call does not raise, so
\* execute returns what process_single_email returns and leaves the stats
\* as process_single_email left them.
ExecuteProcessSingleEmail(e, sn, ce, o, sent, c) ==
    /\ runPc = "idle"
    /\ itemsDone < MaxItems
    /\ \E r \in {ProcessSingleEmail(e, sn, ce, o, sent, c, stats, calendar_events,
                                    calendar_service)} :
        /\ itemsDone' = itemsDone + 1
        /\ email_data' = e
        /\ coOptions' = [send_notification |-> sn, create_event |-> ce]
        /\ analysis_result' = r.analysis
        /\ co_result' = r.result
        /\ coPc' = IF Truthy(Get(r.analysis, "success")) THEN "processed"
                   ELSE "analysis_failed"
        /\ stats' = r.stats
        /\ calendar_events' = r.events
        /\ coRan' = r.ran
        /\ coOutcomes' = r.outcomes
        /\ UNCHANGED <<config, aiVars, later_models, agAttempts, waVars, event_details,
                       calPc, calListing, calMatched, calSubmitted, calReturn, batchVars,
                       runVars, health_report, stepVars>>

\* The items handed to execute: those with a subject.
DirectItems == {e \in Emails : e.subject # ""}

InitItem ==
    /\ config = RunConfig
    /\ email_data = NoEmail
    /\ AIIdle
    /\ AgentIdle
    /\ WAIdle
    /\ calendar_events \in InitialCalendars
    /\ event_details = EmptyDict
    /\ calPc = "idle"
    /\ calListing = "ok"
    /\ calMatched = FALSE
    /\ calSubmitted = <<>>
    /\ calReturn = FALSE
    /\ calendar_service \in {"service", "None"}
    /\ events_list = <<>>
    /\ batchOutcomes = <<>>
    /\ batch_report = EmptyDict
    /\ RestIdle

NextItem ==
    \E e \in DirectItems, sn \in BOOLEAN, ce \in BOOLEAN, o \in ItemAIOutcomes :
        \E sent \in (IF sn THEN BOOLEAN ELSE {FALSE}),
           c \in (IF ce THEN ItemOutcomes ELSE {[listing |-> "ok", insertion |-> "ok"]}) :
            ExecuteProcessSingleEmail(e, sn, ce, o, sent, c)

SpecItem == InitItem /\ [][NextItem]_vars

(***************************************************************************)
(* Properties of process_single_email (SpecItem).                          *)
(***************************************************************************)

\* A step in which process_single_email was called once.
ItemStep == itemsDone' = itemsDone + 1

\* C17: every call of process_single_email whose analysis fails increases
\* stats.errors by exactly one, whether the call comes from
\* execute(action = "process_single_email") or from process_all_emails.
C17_FailedAnalysisCountsOneError ==
    [][(ItemStep /\ ~Truthy(Get(analysis_result', "success")))
           => stats'.errors = stats.errors + 1]_vars

\* C18: the dict process_single_email returns says success iff the analysis
\* succeeded, whatever the options and whatever became of the notification
\* and of the calendar requests.
C18_SuccessIffAnalysisSucceeded ==
    itemsDone > 0 =>
        (Truthy(co_result.success) <=> Truthy(Get(analysis_result, "success")))

\* An item that succeeded although its notification was not delivered and its
\* event was neither matched nor created.
C18_Witness ==
    /\ coPc = "processed"
    /\ Truthy(co_result.success)
    /\ coOptions = [send_notification |-> TRUE, create_event |-> TRUE]
    /\ co_result.notification_result.success = JBool(FALSE)
    /\ coRan
    /\ coOutcomes = <<"failed">>

\* The number of events the last item's calendar step created.
CreatedCount == Cardinality({i \in 1..Len(coOutcomes) : coOutcomes[i] = "created"})

\* C19: a call of process_single_email whose calendar step runs increases
\* stats.events_created by the number of events that step created, and a
\* call whose calendar step does not run leaves it unchanged.
C19_EventsCreatedCountsCreations ==
    [][ItemStep => stats'.events_created =
                       stats.events_created + (IF coRan' THEN CreatedCount' ELSE 0)]_vars

\* C35: the dict of a processed item has workflow_steps.calendar_event_created
\* true only if one of the item's event requests was created or matched an
\* existing event.
C35_CalendarFlagTruthful ==
    (itemsDone > 0 /\ Truthy(co_result.success)
     /\ co_result.workflow_steps.calendar_event_created) =>
        \E i \in 1..Len(coOutcomes) : coOutcomes[i] \in {"created", "matched"}

(***************************************************************************)
(* CoordinatorAgent.process_all_emails on a new coordinator, one step per  *)
(* item of the loop (SpecRun).  The message texts that carry counts and    *)
(* the two timestamps of the stats are left out.                           *)
(***************************************************************************)

\* A run fetches at most MaxEmails items.
MaxEmails == 4

\* The inbox: the two items in turn.
InboxItem(i) ==
    IF i % 2 = 1 THEN [subject |-> "Sports Day", from |-> "school@example.com",
                       body |-> "Sports Day is on Friday."]
    ELSE [subject |-> "", from |-> "office@example.com", body |-> LongBody]

\* What email_agent.execute({"action": "fetch_emails", ...}) can return: a
\* failure, or the first n items of the inbox.
FetchResults ==
    {[success |-> FALSE, error |-> "IMAP connection failed", emails |-> <<>>]}
    \cup {[success |-> TRUE, error |-> "", emails |-> [i \in 1..n |-> InboxItem(i)]] :
             n \in 0..MaxEmails}

\* Provider outcomes of the items of a run: an event, no event, a hard error.
RunAIOutcomes ==
    { o \in ItemAIOutcomes :
         \/ o.kind = "error"
         \/ Contains(o.text, "Sports day on Friday")
         \/ Contains(o.text, "Fees are due") }

\* Faulty variant: every item counts as processed.
StatsAfterItem_AlwaysProcessed(st, result) ==
    [st EXCEPT !.emails_processed = @ + 1]

\* The loop body after process_single_email returned `result`.
StatsAfterItem(st, result) ==
    IF Truthy(result.success)
    THEN [st EXCEPT !.emails_processed = @ + 1]
    ELSE [st EXCEPT !.errors = @ + 1]

\* Step 3: the dict process_all_emails returns after its loop.
RunSummary(list, results, st) ==
    [success |-> JBool(TRUE),
     emails_processed |-> Cardinality({i \in 1..Len(results) : Truthy(results[i].success)}),
     total_emails |-> Len(list),
     processing_results |-> results,
     stats |-> st]

\* Faulty variant: a fetch that fails counts as an error.
ProcessAllEmails_CountsFailedFetch(fetch, sn, ce) ==
    /\ runPc = "idle"
    /\ coOptions' = [send_notification |-> sn, create_event |-> ce]
    /\ email_result' = fetch
    /\ emails' = fetch.emails
    /\ stats' = IF fetch.success THEN stats ELSE [stats EXCEPT !.errors = @ + 1]
    /\ IF ~fetch.success
       THEN /\ runPc' = "done"
            /\ run_result' = [success |-> JBool(FALSE),
                              error |-> JStr("Failed to fetch emails: " \o fetch.error),
                              stats |-> stats']
       ELSE IF fetch.emails = <<>>
       THEN /\ runPc' = "done"
            /\ run_result' = [success |-> JBool(TRUE),
                              message |-> JStr("No emails to process"),
                              emails_processed |-> 0, stats |-> stats]
       ELSE /\ runPc' = "loop"
            /\ run_result' = run_result
    /\ UNCHANGED <<envVars, aiVars, agVars, waVars, calVars, batchVars, coRan,
                   coOutcomes, itemsDone, processing_results, runAnalyses, health_report,
                   stepVars>>

\* process_all_emails(max_emails, sn, ce) up to its loop; fetch is what the
\* email agent returned.
ProcessAllEmails(fetch, sn, ce) ==
    /\ runPc = "idle"
    /\ coOptions' = [send_notification |-> sn, create_event |-> ce]
    /\ email_result' = fetch
    /\ emails' = fetch.emails
    /\ IF ~fetch.success
       THEN /\ runPc' = "done"
            /\ run_result' = [success |-> JBool(FALSE),
                              error |-> JStr("Failed to fetch emails: " \o fetch.error),
                              stats |-> stats]
       ELSE IF fetch.emails = <<>>
       THEN /\ runPc' = "done"
            /\ run_result' = [success |-> JBool(TRUE),
                              message |-> JStr("No emails to process"),
                              emails_processed |-> 0, stats |-> stats]
       ELSE /\ runPc' = "loop"
            /\ run_result' = run_result
    /\ UNCHANGED <<envVars, aiVars, agVars, waVars, calVars, batchVars, stats, coRan,
                   coOutcomes, itemsDone, processing_results, runAnalyses, health_report,
                   stepVars>>

\* One round of the loop, for the next item of the list; after the last item
\* the summary is returned.
ProcessNextEmail(o, sent, c) ==
    /\ runPc = "loop"
    /\ \E r \in {ProcessSingleEmail(emails[Len(processing_results) + 1],
                                    coOptions.send_notification, coOptions.create_event,
                                    o, sent, c, stats, calendar_events,
                                    calendar_service)} :
        /\ itemsDone' = itemsDone + 1
        /\ email_data' = emails[Len(processing_results) + 1]
        /\ analysis_result' = r.analysis
        /\ co_result' = r.result
        /\ coPc' = IF Truthy(Get(r.analysis, "success")) THEN "processed"
                   ELSE "analysis_failed"
        /\ stats' = StatsAfterItem(r.stats, r.result)
        /\ calendar_events' = r.events
        /\ coRan' = r.ran
        /\ coOutcomes' = r.outcomes
        /\ processing_results' = Append(processing_results, r.result)
        /\ runAnalyses' = Append(runAnalyses, r.analysis)
        /\ IF Len(processing_results') = Len(emails)
           THEN /\ runPc' = "done"
                /\ run_result' = RunSummary(emails, processing_results', stats')
           ELSE /\ runPc' = "loop"
                /\ run_result' = run_result
        /\ UNCHANGED <<config, aiVars, later_models, agAttempts, waVars, event_details,
                       calPc, calListing, calMatched, calSubmitted, calReturn, batchVars,
                       coOptions, email_result, emails, health_report, stepVars>>

InitRun ==
    /\ config = RunConfig
    /\ email_data = NoEmail
    /\ AIIdle
    /\ AgentIdle
    /\ WAIdle
    /\ MoreIdle

NextRun ==
    \/ \E fetch \in FetchResults, sn \in BOOLEAN, ce \in BOOLEAN :
           ProcessAllEmails(fetch, sn, ce)
    \/ \E o \in RunAIOutcomes :
           \E sent \in (IF coOptions.send_notification THEN BOOLEAN ELSE {FALSE}) :
               ProcessNextEmail(o, sent, [listing |-> "ok", insertion |-> "ok"])

SpecRun == InitRun /\ [][NextRun]_vars

(***************************************************************************)
(* Properties of process_all_emails (SpecRun).                             *)
(***************************************************************************)

\* The items of the run whose analysis failed.
FailedItems == {i \in 1..Len(runAnalyses) : ~Truthy(Get(runAnalyses[i], "success"))}

\* C16: a run that fetched items returns one result per fetched item, in
\* fetch order; result i is marked failed iff the analysis of item i failed;
\* stats.errors has grown by the number of failed items and
\* stats.emails_processed by the number of the others.
C16_OneResultPerItem ==
    (runPc = "done" /\ emails # <<>>) =>
        /\ Len(run_result.processing_results) = Len(emails)
        /\ \A i \in 1..Len(emails) :
              /\ run_result.processing_results[i].email_subject = JStr(emails[i].subject)
              /\ ~Truthy(run_result.processing_results[i].success) <=> i \in FailedItems
        /\ stats.errors = NewStats.errors + Cardinality(FailedItems)
        /\ stats.emails_processed =
               NewStats.emails_processed + Len(emails) - Cardinality(FailedItems)

\* Four items fetched, the analysis of item 3 failed with a hard error: four
\* results, the third failed, one error, three items processed.
C16_Witness ==
    /\ runPc = "done"
    /\ Len(emails) = 4
    /\ FailedItems = {3}
    /\ Get(runAnalyses[3], "error") = JStr("Rate limit reached for requests")
    /\ Len(run_result.processing_results) = 4
    /\ ~Truthy(run_result.processing_results[3].success)
    /\ \A i \in {1, 2, 4} : Truthy(run_result.processing_results[i].success)
    /\ stats.errors = 1
    /\ stats.emails_processed = 3

\* The dict of the item just processed says its notification was delivered.
DeliveredNow ==
    /\ Truthy(co_result'.success)
    /\ co_result'.notification_result # JNull
    /\ Truthy(co_result'.notification_result.success)

\* C37: an item of a run whose analysis succeeded, for which a notification
\* was requested and delivered, adds one to stats.notifications_sent; every
\* other item and every other step adds nothing; so the counter is never
\* above the number of items analysed with success.
C37_NotificationsSentCountsDeliveries ==
    /\ [][stats'.notifications_sent =
              stats.notifications_sent
              + (IF /\ ItemStep
                    /\ Truthy(Get(analysis_result', "success"))
                    /\ coOptions'.send_notification
                    /\ DeliveredNow
                 THEN 1 ELSE 0)]_vars
    /\ [](stats.notifications_sent <= Len(runAnalyses) - Cardinality(FailedItems))

\* C37 witness: of three items the first was delivered, the second was not,
\* the analysis of the third failed: one notification counted.
C37_Witness ==
    /\ runPc = "done"
    /\ Len(emails) = 3
    /\ FailedItems = {3}
    /\ coOptions.send_notification
    /\ Truthy(processing_results[1].notification_result.success)
    /\ ~Truthy(processing_results[2].notification_result.success)
    /\ stats.notifications_sent = 1

(***************************************************************************)
(* CoordinatorAgent.run_health_check (SpecHealth).  The timestamp of the   *)
(* report is left out.                                                     *)
(***************************************************************************)

HealthEntry(status, details) == [status |-> status, details |-> details]

\* The check of the AI service.  A configuration without the attribute
\* ANTHROPIC_API_KEY, read when OPENAI_API_KEY is unset, raises into the
\* except branch, which also gives "unhealthy".
AIServiceHealth(cfg) ==
    IF cfg.OPENAI_API_KEY # "" \/ cfg.ANTHROPIC_API_KEY # ""
    THEN HealthEntry("healthy", "AI service configured with model: " \o cfg.AI_MODEL)
    ELSE HealthEntry("unhealthy", "No AI API keys configured")

\* The check of the WhatsApp service.
WhatsAppHealth(cfg) ==
    LET twilio_configured == /\ cfg.TWILIO_ACCOUNT_SID # ""
                             /\ cfg.TWILIO_AUTH_TOKEN # ""
                             /\ cfg.YOUR_WHATSAPP_NUMBER # ""
        callmebot_configured == cfg.CALLMEBOT_API_KEY # "" /\ cfg.CALLMEBOT_PHONE # ""
    IN  IF twilio_configured \/ callmebot_configured
        THEN HealthEntry("healthy",
                         "WhatsApp service configured ("
                             \o (IF twilio_configured THEN "Twilio" ELSE "CallMeBot") \o ")")
        ELSE HealthEntry("unhealthy",
                         "Neither Twilio nor CallMeBot credentials are configured")

\* Faulty variant: the email service is healthy only with Gmail credentials.
HealthResults_EmailChecked(cfg) ==
    [email_service |->
         IF cfg.GMAIL_USER # "" /\ cfg.GMAIL_PASSWORD # ""
         THEN HealthEntry("healthy", "Email service configuration appears valid")
         ELSE HealthEntry("unhealthy", "Email service error: no credentials"),
     ai_service |-> AIServiceHealth(cfg),
     whatsapp_service |-> WhatsAppHealth(cfg),
     calendar_service |-> HealthEntry("healthy",
                                      "Calendar service configuration appears valid")]

\* health_results after the four checks.
HealthResults(cfg) ==
    [email_service |-> HealthEntry("healthy", "Email service configuration appears valid"),
     ai_service |-> AIServiceHealth(cfg),
     whatsapp_service |-> WhatsAppHealth(cfg),
     calendar_service |-> HealthEntry("healthy",
                                      "Calendar service configuration appears valid")]

\* sum(1 for result in health_results.values() if result["status"] == "healthy")
HealthyServices(health_results) ==
    Cardinality({k \in DOMAIN health_results : health_results[k].status = "healthy"})

\* Faulty variant: healthy as soon as one service is.
OverallHealth_AnyHealthy(healthy_services, total_services) ==
    IF healthy_services > 0 THEN "healthy" ELSE "unhealthy"

OverallHealth(healthy_services, total_services) ==
    IF healthy_services = total_services THEN "healthy"
    ELSE IF healthy_services > 0 THEN "degraded"
    ELSE "unhealthy"

\* The dict run_health_check returns.
HealthReport(health_results) ==
    [success |-> JBool(TRUE),
     overall_health |-> OverallHealth(HealthyServices(health_results),
                                      Cardinality(DOMAIN health_results)),
     healthy_services |-> HealthyServices(health_results),
     total_services |-> Cardinality(DOMAIN health_results),
     service_health |-> health_results]

\* One call of run_health_check on a coordinator that has not run one.
RunHealthCheck ==
    /\ health_report = EmptyDict
    /\ health_report' = HealthReport(HealthResults(config))
    /\ UNCHANGED <<envVars, aiVars, agVars, waVars, calVars, batchVars, coVars, runVars,
                   stepVars>>

HealthConfigs ==
    {[BaseConfig EXCEPT !.OPENAI_API_KEY = k, !.ANTHROPIC_API_KEY = a,
                        !.TWILIO_ACCOUNT_SID = sid, !.TWILIO_AUTH_TOKEN = tok,
                        !.YOUR_WHATSAPP_NUMBER = num, !.CALLMEBOT_API_KEY = ck,
                        !.CALLMEBOT_PHONE = cp] :
        k \in Secrets, a \in Secrets, sid \in Secrets, tok \in Secrets, num \in Secrets,
        ck \in Secrets, cp \in Secrets}

InitHealth ==
    /\ config \in HealthConfigs
    /\ email_data = NoEmail
    /\ AIIdle
    /\ AgentIdle
    /\ WAIdle
    /\ MoreIdle

NextHealth == RunHealthCheck

SpecHealth == InitHealth /\ [][NextHealth]_vars

(***************************************************************************)
(* Properties of run_health_check (SpecHealth).                            *)
(***************************************************************************)

\* The entries of the report whose status is healthy.
HealthyEntries ==
    {k \in DOMAIN health_report.service_health :
        health_report.service_health[k].status = "healthy"}

\* C20: the report has four service entries; overall_health is "healthy" iff
\* all four are healthy, "unhealthy" iff none is, "degraded" otherwise, and
\* healthy_services is the number of healthy entries.
C20_OverallHealthFromEntries ==
    health_report # EmptyDict =>
        /\ Cardinality(DOMAIN health_report.service_health) = 4
        /\ health_report.overall_health = "healthy" <=> Cardinality(HealthyEntries) = 4
        /\ health_report.overall_health = "unhealthy" <=> Cardinality(HealthyEntries) = 0
        /\ health_report.overall_health = "degraded"
               <=> Cardinality(HealthyEntries) \in 1..3
        /\ health_report.healthy_services = Cardinality(HealthyEntries)

\* A report with the AI service and the WhatsApp service unhealthy: degraded,
\* two healthy services.
C20_Witness ==
    /\ health_report # EmptyDict
    /\ health_report.service_health.ai_service.status = "unhealthy"
    /\ health_report.service_health.whatsapp_service.status = "unhealthy"
    /\ health_report.overall_health = "degraded"
    /\ health_report.healthy_services = 2


\* The configuration has no AI key and none of the WhatsApp credentials.
NothingConfigured ==
    /\ config.OPENAI_API_KEY = "" /\ config.ANTHROPIC_API_KEY = ""
    /\ config.TWILIO_ACCOUNT_SID = "" /\ config.TWILIO_AUTH_TOKEN = ""
    /\ config.YOUR_WHATSAPP_NUMBER = ""
    /\ config.CALLMEBOT_API_KEY = "" /\ config.CALLMEBOT_PHONE = ""
    /\ config.CALLMEBOT_API_KEY_2 = "" /\ config.CALLMEBOT_PHONE_2 = ""

\* C38: every report says success, has the email service and the calendar
\* service healthy and an overall_health other than "unhealthy"; with no AI
\* key and no WhatsApp credentials it is "degraded" with healthy_services = 2.
C38_NeverUnhealthy ==
    health_report # EmptyDict =>
        /\ health_report.success = JBool(TRUE)
        /\ health_report.service_health.email_service.status = "healthy"
        /\ health_report.service_health.calendar_service.status = "healthy"
        /\ health_report.overall_health \in {"healthy", "degraded"}
        /\ health_report.healthy_services >= 2
        /\ NothingConfigured =>
               /\ health_report.overall_health = "degraded"
               /\ health_report.healthy_services = 2

\* C38 witness: the report of a coordinator without any key.
C38_Witness ==
    /\ NothingConfigured
    /\ health_report # EmptyDict
    /\ HealthyEntries = {"email_service", "calendar_service"}
    /\ health_report.overall_health = "degraded"

(***************************************************************************)
(* CoordinatorAgent.process_all_emails on a new coordinator, one step per  *)
(* call the loop makes: the analysis, the notification, the calendar step, *)
(* the bookkeeping of the loop body, and time.sleep(2) (SpecFlow).         *)
(***************************************************************************)

\* A run of SpecFlow fetches at most MaxFlowEmails items.
MaxFlowEmails == 3

\* The position of the loop: the item it is at.
CurrentItem == Len(processing_results) + 1

\* The calls made so far, with one more for the item the loop is at.
Logged(step) == Append(coSteps, [item |-> CurrentItem, step |-> step])

\* Step 1 of process_single_email for the next item of the list.
AnalysisCall(o) ==
    /\ runPc = "loop"
    /\ runPc' = "item"
    /\ email_data' = emails[CurrentItem]
    /\ analysis_result' = ItemAnalyses[emails[CurrentItem]][o]
    /\ coPc' = IF Truthy(Get(analysis_result', "success")) THEN "analyzed"
               ELSE "analysis_failed"
    /\ coSteps' = Logged("analysis")
    /\ notification_result' = JNull
    /\ calendar_result' = JNull
    /\ coRan' = FALSE
    /\ coOutcomes' = <<>>
    /\ UNCHANGED <<config, aiVars, later_models, agAttempts, co_result, waVars, calVars,
                   batchVars, stats, coOptions, itemsDone, email_result, emails,
                   processing_results,
                   run_result, runAnalyses, health_report, runsDone, workflow_status>>

\* Step 2: the notification agent is called when a notification is requested.
NotificationCall(sent) ==
    /\ runPc = "item"
    /\ coPc = "analyzed"
    /\ coOptions.send_notification
    /\ coPc' = "notified"
    /\ notification_result' = NotificationResult(sent)
    /\ stats' = StatsAfterNotification(stats, notification_result')
    /\ coSteps' = Logged("notification")
    /\ UNCHANGED <<envVars, aiVars, later_models, agAttempts, analysis_result, co_result,
                   waVars, calVars, batchVars, coOptions, coRan, coOutcomes, itemsDone,
                   runVars, health_report, calendar_result, runsDone, workflow_status>>

\* Faulty variant: step 3 does not wait for step 2.
AtCalendarStep_BeforeNotification ==
    runPc = "item" /\ coPc = "analyzed"

\* process_single_email has reached step 3.
AtCalendarStep ==
    /\ runPc = "item"
    /\ \/ coPc = "notified"
       \/ coPc = "analyzed" /\ ~coOptions.send_notification

\* The test of step 3.
CalendarWanted == coOptions.create_event /\ Truthy(Get(analysis_result, "hasEvent"))

\* Step 3: the calendar agent is called; c is the outcome of its requests.
CalendarCall(c) ==
    /\ AtCalendarStep
    /\ CalendarWanted
    /\ \E cal \in {ProcessAIEvents(calendar_events, calendar_service, analysis_result, c)} :
        /\ coPc' = "calendared"
        /\ calendar_result' = cal.result
        /\ stats' = StatsAfterCalendar(stats, cal)
        /\ calendar_events' = cal.events
        /\ coRan' = TRUE
        /\ coOutcomes' = cal.outcomes
        /\ coSteps' = Logged("calendar")
        /\ UNCHANGED <<envVars, aiVars, later_models, agAttempts, analysis_result,
                       co_result, waVars, event_details, calPc, calListing, calMatched,
                       calSubmitted, calReturn, batchVars, coOptions, itemsDone, runVars,
                       health_report, notification_result, runsDone, workflow_status>>

\* What process_single_email returns from where it is.
ItemResult ==
    IF coPc = "analysis_failed" THEN CoordinatorFailure(email_data, analysis_result)
    ELSE CoordinatorSuccess(email_data, analysis_result, notification_result,
                            calendar_result)

\* process_single_email returns and the loop body records the result.
RecordResult ==
    /\ runPc = "item"
    /\ \/ coPc = "analysis_failed"
       \/ coPc = "calendared"
       \/ AtCalendarStep /\ ~CalendarWanted
    /\ runPc' = "sleep"
    /\ co_result' = ItemResult
    /\ coPc' = IF coPc = "analysis_failed" THEN "analysis_failed" ELSE "processed"
    /\ processing_results' = Append(processing_results, co_result')
    /\ runAnalyses' = Append(runAnalyses, analysis_result)
    /\ stats' = StatsAfterItem(stats, co_result')
    /\ itemsDone' = itemsDone + 1
    /\ UNCHANGED <<envVars, aiVars, later_models, agAttempts, analysis_result, waVars,
                   calVars, batchVars, coOptions, coRan, coOutcomes, email_result, emails,
                   run_result,
                   health_report, stepVars>>

\* Faulty variant: the loop goes on without the delay.
PacingDelay_Skipped ==
    /\ runPc = "sleep"
    /\ IF Len(processing_results) = Len(emails)
       THEN /\ runPc' = "done"
            /\ run_result' = RunSummary(emails, processing_results, stats)
       ELSE /\ runPc' = "loop"
            /\ run_result' = run_result
    /\ UNCHANGED <<envVars, aiVars, agVars, waVars, calVars, batchVars, coVars,
                   email_result, emails,
                   processing_results, runAnalyses, health_report, stepVars>>

\* time.sleep(2) at the end of the loop body; after the last item the summary
\* is returned.
PacingDelay ==
    /\ runPc = "sleep"
    /\ coSteps' = Append(coSteps, [item |-> Len(processing_results), step |-> "sleep"])
    /\ IF Len(processing_results) = Len(emails)
       THEN /\ runPc' = "done"
            /\ run_result' = RunSummary(emails, processing_results, stats)
       ELSE /\ runPc' = "loop"
            /\ run_result' = run_result
    /\ UNCHANGED <<envVars, aiVars, agVars, waVars, calVars, batchVars, coVars,
                   email_result, emails,
                   processing_results, runAnalyses, health_report, notification_result,
                   calendar_result, runsDone, workflow_status>>

\* The fetches of SpecFlow.
FlowFetchResults == {f \in FetchResults : Len(f.emails) <= MaxFlowEmails}

NextFlow ==
    \/ \E fetch \in FlowFetchResults, sn \in BOOLEAN, ce \in BOOLEAN :
           ProcessAllEmails(fetch, sn, ce)
    \/ \E o \in RunAIOutcomes : AnalysisCall(o)
    \/ \E sent \in BOOLEAN : NotificationCall(sent)
    \/ \E c \in ItemOutcomes : CalendarCall(c)
    \/ RecordResult
    \/ PacingDelay

SpecFlow == InitRun /\ [][NextFlow]_vars


(***************************************************************************)
(* Properties of the steps of a run (SpecFlow).                            *)
(***************************************************************************)

\* The positions in the log of the given step of item i.
StepsOf(i, step) == {k \in 1..Len(coSteps) : coSteps[k] = [item |-> i, step |-> step]}

\* The positions in the log of the calls made for item i.
CallsOf(i) == {k \in 1..Len(coSteps) : coSteps[k].item = i /\ coSteps[k].step # "sleep"}

\* The items the loop has begun.
ItemsBegun == {coSteps[k].item : k \in 1..Len(coSteps)}

\* The analysis of item i, an item the loop has begun.
AnalysisOf(i) == IF i <= Len(runAnalyses) THEN runAnalyses[i] ELSE analysis_result

\* What the notification step of item i gave, JNull when there was none.
NotificationOf(i) ==
    IF i > Len(processing_results) THEN notification_result
    ELSE IF Truthy(processing_results[i].success)
    THEN processing_results[i].notification_result
    ELSE JNull

\* C21: for every item, the analysis is the first call and is made once; the
\* notification is called only after a successful analysis and only when a
\* notification is requested; the calendar step is called only after a
\* successful analysis, only when events are requested and the analysis has
\* hasEvent, and only after the notification call when there is one; after
\* a failed analysis neither is called for the item.
C21_StepOrder ==
    \A i \in ItemsBegun :
        /\ Cardinality(StepsOf(i, "analysis")) = 1
        /\ \A a \in StepsOf(i, "analysis") : \A k \in CallsOf(i) : a <= k
        /\ \A n \in StepsOf(i, "notification") :
               /\ Truthy(Get(AnalysisOf(i), "success"))
               /\ coOptions.send_notification
        /\ \A c \in StepsOf(i, "calendar") :
               /\ Truthy(Get(AnalysisOf(i), "success"))
               /\ coOptions.create_event
               /\ Truthy(Get(AnalysisOf(i), "hasEvent"))
               /\ coOptions.send_notification =>
                      \E n \in StepsOf(i, "notification") : n < c
               /\ \A n \in StepsOf(i, "notification") : n < c
        /\ ~Truthy(Get(AnalysisOf(i), "success")) =>
               StepsOf(i, "notification") \cup StepsOf(i, "calendar") = {}

\* A run of two items: all three calls for the first, in order, and only
\* the failed analysis for the second.
C21_Witness ==
    /\ runPc = "done"
    /\ [k \in 1..Len(coSteps) |-> coSteps[k].step] =
           <<"analysis", "notification", "calendar", "sleep", "analysis", "sleep">>
    /\ [k \in 1..Len(coSteps) |-> coSteps[k].item] = <<1, 1, 1, 1, 2, 2>>
    /\ ~Truthy(processing_results[2].success)

\* The recorded items whose notification failed although events were
\* requested and the analysis has hasEvent.
FailedNotificationWithEvent ==
    {i \in 1..Len(processing_results) :
        /\ NotificationOf(i) # JNull
        /\ ~Truthy(NotificationOf(i).success)
        /\ coOptions.create_event
        /\ Truthy(Get(runAnalyses[i], "hasEvent"))}

\* The items whose notification was delivered.
Delivered ==
    {i \in ItemsBegun : NotificationOf(i) # JNull /\ Truthy(NotificationOf(i).success)}

\* C22: an item whose notification failed still has its calendar step when
\* events are requested and the analysis has hasEvent, and it still
\* succeeds; stats.notifications_sent counts the delivered notifications
\* only, so a failed notification leaves it unchanged.
C22_NotificationFailureIsolated ==
    /\ \A i \in FailedNotificationWithEvent :
           /\ StepsOf(i, "calendar") # {}
           /\ processing_results[i].calendar_result # JNull
           /\ Truthy(processing_results[i].success)
    /\ stats.notifications_sent = Cardinality(Delivered)

\* A first item whose notification failed and whose event was created.
C22_Witness ==
    /\ 1 \in FailedNotificationWithEvent
    /\ Truthy(processing_results[1].calendar_result.success)
    /\ stats.notifications_sent = 0
    /\ Len(processing_results) = 1
    /\ coOutcomes = <<"created">>

\* C39: a run whose fetch failed or gave no items makes no call for any
\* item, creates no event and leaves the four counters as they were; it
\* returns a failure with the error of the fetch in the first case, and
\* success with emails_processed = 0 in the second.
C39_RunWithoutItemsHasNoEffects ==
    (runPc = "done" /\ (~email_result.success \/ email_result.emails = <<>>)) =>
        /\ coSteps = <<>>
        /\ itemsDone = 0
        /\ calendar_events = <<>>
        /\ stats = NewStats
        /\ run_result.stats = NewStats
        /\ IF ~email_result.success
           THEN /\ run_result.success = JBool(FALSE)
                /\ run_result.error =
                       JStr("Failed to fetch emails: " \o email_result.error)
           ELSE /\ run_result.success = JBool(TRUE)
                /\ run_result.emails_processed = 0

\* C39 witness: the fetch failed and the run returned the failure.
C39_Witness ==
    /\ runPc = "done"
    /\ email_result = [success |-> FALSE, error |-> "IMAP connection failed",
                       emails |-> <<>>]
    /\ run_result.success = JBool(FALSE)
    /\ stats = NewStats

\* C23: the items are begun in fetch order without a gap; the log never
\* goes back to an earlier item; result i is that of item i of the list;
\* every item has at most one delay, after all its calls, and the next item
\* begins only after it; a run that has returned has begun every fetched
\* item, failed ones included, and has taken one delay per item.
C23_StrictlySequential ==
    /\ ItemsBegun = 1..Cardinality(ItemsBegun)
    /\ \A j \in 1..Len(coSteps) : \A k \in 1..Len(coSteps) :
           j < k => coSteps[j].item <= coSteps[k].item
    /\ \A i \in 1..Len(processing_results) :
           processing_results[i].email_subject = JStr(emails[i].subject)
    /\ \A i \in ItemsBegun :
           /\ Cardinality(StepsOf(i, "sleep")) <= 1
           /\ \A z \in StepsOf(i, "sleep") : \A k \in CallsOf(i) : k < z
           /\ (i + 1) \in ItemsBegun => StepsOf(i, "sleep") # {}
    /\ (runPc = "done" /\ emails # <<>>) =>
           /\ ItemsBegun = 1..Len(emails)
           /\ \A i \in 1..Len(emails) : Cardinality(StepsOf(i, "sleep")) = 1

\* A run of three items that went on after its first item failed.
C23_Witness ==
    /\ runPc = "done"
    /\ Len(emails) = 3
    /\ ~Truthy(processing_results[1].success)
    /\ Truthy(processing_results[2].success)
    /\ Truthy(processing_results[3].success)
    /\ Cardinality({k \in 1..Len(coSteps) : coSteps[k].step = "sleep"}) = 3


(***************************************************************************)
(* One CoordinatorAgent over several calls: process_all_emails, one step   *)
(* per item, process_single_email through execute, get_workflow_status     *)
(* and run_health_check, each made when no other call is running           *)
(* (SpecLife).                                                             *)
(***************************************************************************)

\* The coordinator makes at most MaxRuns runs, of at most MaxLifeEmails items.
MaxRuns == 2
MaxLifeEmails == 1

\* The fetches of SpecLife.
LifeFetchResults == {f \in FetchResults : Len(f.emails) <= MaxLifeEmails}

\* Provider outcomes of the items of SpecLife: an event, a hard error.
LifeAIOutcomes == {o \in RunAIOutcomes : ~Contains(o.text, "Fees are due")}

\* One more call of process_all_emails, with the default options.
NextRunCall(fetch) ==
    /\ runsDone < MaxRuns
    /\ ProcessAllEmails(fetch, TRUE, TRUE)

\* Faulty variant: the counters start again after a run.
ReturnToCaller_NewStats ==
    /\ runPc = "done"
    /\ runPc' = "idle"
    /\ runsDone' = runsDone + 1
    /\ email_result' = NoFetch
    /\ emails' = <<>>
    /\ processing_results' = <<>>
    /\ runAnalyses' = <<>>
    /\ run_result' = EmptyDict
    /\ stats' = NewStats
    /\ UNCHANGED <<envVars, aiVars, agVars, waVars, calVars, batchVars, coOptions, coRan,
                   coOutcomes, itemsDone, health_report, coSteps, notification_result,
                   calendar_result, workflow_status>>

\* process_all_emails has returned: its locals are gone and the caller has
\* its result; self.stats stays as the run left it.
ReturnToCaller ==
    /\ runPc = "done"
    /\ runPc' = "idle"
    /\ runsDone' = runsDone + 1
    /\ email_result' = NoFetch
    /\ emails' = <<>>
    /\ processing_results' = <<>>
    /\ runAnalyses' = <<>>
    /\ run_result' = EmptyDict
    /\ UNCHANGED <<envVars, aiVars, agVars, waVars, calVars, batchVars, coVars,
                   health_report, coSteps, notification_result, calendar_result,
                   workflow_status>>

\* get_workflow_status(), called once: every agent reports "active"; the
\* dict carries self.stats (the agents' own dicts and the timestamp are left
\* out).
GetWorkflowStatus ==
    /\ runPc = "idle"
    /\ workflow_status = EmptyDict
    /\ workflow_status' =
           [success |-> TRUE,
            coordinator_status |-> [status |-> "active", stats |-> stats],
            overall_health |-> "healthy"]
    /\ UNCHANGED <<envVars, aiVars, agVars, waVars, calVars, batchVars, coVars, runVars,
                   health_report, coSteps, notification_result, calendar_result, runsDone>>

\* run_health_check() between two other calls.
HealthCheckCall ==
    /\ runPc = "idle"
    /\ RunHealthCheck

NextLife ==
    \/ \E fetch \in LifeFetchResults : NextRunCall(fetch)
    \/ \E o \in LifeAIOutcomes :
           \E sent \in (IF coOptions.send_notification THEN BOOLEAN ELSE {FALSE}) :
               ProcessNextEmail(o, sent, [listing |-> "ok", insertion |-> "ok"])
    \/ ReturnToCaller
    \/ \E sn \in BOOLEAN, o \in LifeAIOutcomes :
           \E sent \in (IF sn THEN BOOLEAN ELSE {FALSE}) :
               ExecuteProcessSingleEmail(InboxItem(1), sn, TRUE, o, sent,
                                         [listing |-> "ok", insertion |-> "ok"])
    \/ GetWorkflowStatus
    \/ HealthCheckCall

SpecLife == InitRun /\ [][NextLife]_vars

(***************************************************************************)
(* Properties of the counters over the calls (SpecLife).                   *)
(***************************************************************************)

\* The four counters of self.stats.
Counters == {"emails_processed", "events_created", "notifications_sent", "errors"}

\* C24: no step of any call decreases one of the four counters; a call of
\* get_workflow_status or run_health_check, the start of a run and the
\* return of a run leave them as they are, so that a second run counts on
\* from the totals of the first.
C24_StatsNeverReset ==
    [][/\ \A k \in Counters : stats'[k] >= stats[k]
       /\ (workflow_status' # workflow_status \/ health_report' # health_report
           \/ (runPc = "idle" /\ runPc' # "idle")
           \/ (runPc = "done" /\ runPc' = "idle")) => stats' = stats]_vars

\* A second run has returned on a coordinator that was also asked for its
\* status, for a health check and for one item: the counters hold the
\* totals of both runs and of the item.
C24_Witness ==
    /\ runsDone = 1
    /\ runPc = "done"
    /\ itemsDone = 3
    /\ stats.emails_processed = 2
    /\ stats.notifications_sent = 3
    /\ workflow_status # EmptyDict
    /\ health_report # EmptyDict


(***************************************************************************)
(* EmailProcessor.process_emails, the loop without the agents, one step    *)
(* per item (SpecLegacy).  The log coSteps holds the calls made for the    *)
(* items; runPc is "raised" when an exception has left process_emails.     *)
(***************************************************************************)

\* get_emails_from_gmail gives at most MaxLegacyEmails items.
MaxLegacyEmails == 3

\* What _call_openai ends with for an item: it raises, or it returns text
\* that is no JSON, JSON with all the fields, JSON without hasEvent, JSON
\* without gist, JSON with hasEvent but without eventDetails.
LegacyAIOutcomes ==
    { ErrorOutcome("Rate limit reached for requests"),
      ContentOutcome("I could not read this email.", FALSE),
      ContentOutcome("{\"gist\": \"Sports day on Friday\", \"hasEvent\": true, \"eventDetails\": {\"title\": \"Sports Day\", \"startDate\": \"2024-05-01\"}, \"priority\": \"high\", \"actionItems\": [\"Pack sports kit\"], \"category\": \"sports\"}", FALSE),
      ContentOutcome("{\"gist\": \"Fees are due\"}", FALSE),
      ContentOutcome("{\"hasEvent\": true, \"eventDetails\": {}}", FALSE),
      ContentOutcome("{\"gist\": \"Trip on Monday\", \"hasEvent\": true}", FALSE) }

\* AIService.process_email_with_ai(e) when _call_openai ended with o.
ProcessEmailResult(e, o) ==
    IF o.kind = "error" THEN AIErrorResult(e) ELSE ParseAIResponse(o.text, e)

\* process_email_with_ai for the items and the outcomes of SpecLegacy, as a
\* table.
LegacyResults == [e \in Emails |-> [o \in LegacyAIOutcomes |-> ProcessEmailResult(e, o)]]

\* _create_whatsapp_message(email_data, r) raises: ai_result['gist'] or
\* ai_result['hasEvent'] is missing (KeyError), the priority is unhashable
\* or len() is taken of a bool (TypeError).
MessageRaises(r) ==
    \/ "gist" \notin DOMAIN r
    \/ "hasEvent" \notin DOMAIN r
    \/ Get(r, "priority").t \in {"list", "obj"}
    \/ Get(r, "actionItems") = JBool(TRUE)

\* The test before the calendar call raises: ai_result['eventDetails'] is
\* read when hasEvent is truthy, and is missing.
EventTestRaises(r) == Truthy(r.hasEvent) /\ "eventDetails" \notin DOMAIN r

\* The calendar call is made.
LegacyEventWanted(r) == Truthy(r.hasEvent) /\ Truthy(r.eventDetails)

\* The calls of one round of the loop for item i with the AI result r.
LegacyCalls(i, r) ==
    <<[item |-> i, step |-> "analysis"]>>
    \o (IF MessageRaises(r) THEN <<>>
        ELSE <<[item |-> i, step |-> "notification"]>>
             \o (IF EventTestRaises(r) THEN <<>>
                 ELSE (IF LegacyEventWanted(r) THEN <<[item |-> i, step |-> "calendar"]>>
                       ELSE <<>>)
                      \o <<[item |-> i, step |-> "sleep"]>>))

\* The calendar after create_calendar_event(details, email_data), the
\* requests of which work.
LegacyCalendarAfter(events, service, details) ==
    IF details.t = "list"
    THEN ServiceCreateCalendarEvents(
             events, service, DictsOf(details.v),
             [i \in 1..Len(details.v) |-> [listing |-> "ok", insertion |-> "ok"]]).events
    ELSE ServiceCreateCalendarEvent(events, service, details.v, "ok", "ok").events

\* get_emails_from_gmail() gave list.
LegacyFetch(list) ==
    /\ runPc = "idle"
    /\ emails' = list
    /\ runPc' = IF list = <<>> THEN "done" ELSE "loop"
    /\ UNCHANGED <<envVars, aiVars, agVars, waVars, calVars, batchVars, coVars,
                   email_result, processing_results, run_result, runAnalyses,
                   health_report, stepVars>>

\* Where the loop is after the round for the AI result r.
LegacyRoundEnd(r) ==
    IF MessageRaises(r) \/ EventTestRaises(r) THEN "raised"
    ELSE IF itemsDone + 1 = Len(emails) THEN "done"
    ELSE "loop"

\* One round of the loop of process_emails, for the next item of the list;
\* send_whatsapp_message returns sent.
LegacyRound(o, sent) ==
    /\ runPc = "loop"
    /\ \E r \in {LegacyResults[emails[itemsDone + 1]][o]} :
        /\ email_data' = emails[itemsDone + 1]
        /\ ai_result' = r
        /\ coSteps' = coSteps \o LegacyCalls(itemsDone + 1, r)
        /\ calendar_events' =
               IF ~MessageRaises(r) /\ ~EventTestRaises(r) /\ LegacyEventWanted(r)
               THEN LegacyCalendarAfter(calendar_events, calendar_service, r.eventDetails)
               ELSE calendar_events
        /\ itemsDone' = itemsDone + 1
        /\ runPc' = LegacyRoundEnd(r)
        /\ waResult' = IF MessageRaises(r) THEN waResult ELSE sent
        /\ UNCHANGED <<config, aiPc, models_to_try, aiIdx, last_error, aiAttempts,
                       observedError, ai_response, aiRaised, agVars, waPc,
                       waAttempts, success_count, total_attempts, waLast,
                       event_details, calPc, calListing, calMatched, calSubmitted,
                       calReturn, batchVars, stats, coOptions, coRan, coOutcomes,
                       email_result, emails, processing_results, run_result,
                       runAnalyses, health_report, notification_result,
                       calendar_result, runsDone, workflow_status>>

\* The lists get_emails_from_gmail can give.
LegacyInboxes == {[i \in 1..n |-> InboxItem(i)] : n \in 0..MaxLegacyEmails}

NextLegacy ==
    \/ \E list \in LegacyInboxes : LegacyFetch(list)
    \/ \E o \in LegacyAIOutcomes, sent \in BOOLEAN : LegacyRound(o, sent)

SpecLegacy == InitRun /\ [][NextLegacy]_vars

(***************************************************************************)
(* Properties of process_emails (SpecLegacy).                              *)
(***************************************************************************)

\* C40: when process_emails has ended, every item of the list has exactly
\* one notification in the log, and the notifications are in the order of
\* the list.
C40_EveryItemNotifiedOnce ==
    (runPc \in {"done", "raised"}) =>
        /\ \A i \in 1..Len(emails) : Cardinality(StepsOf(i, "notification")) = 1
        /\ \A j \in 1..Len(coSteps) : \A k \in 1..Len(coSteps) :
               j < k => coSteps[j].item <= coSteps[k].item

=============================================================================
